---- MODULE Spec2Model ----
(***************************************************************************)
(* Model of the knowledge-base crawler of                                  *)
(* data-collection/additional-information/additional-information.py:       *)
(* TBankKnowledgeParser (parse_page recursion, visited set, article        *)
(* acceptance, per-article files, checkpoints, final aggregate file)       *)
(* and DirectoryCleaner (de-duplication, unprefixed copies, removal of     *)
(* numbered files and checkpoints).                                        *)
(*                                                                         *)
(* Strings are modelled as sequences of tokens.  A URL is the sequence of  *)
(* its pieces at "/" granularity, e.g.                                     *)
(*   "https://example.com/help/a"                                          *)
(*     = <<"https:", "/", "/", "example.com", "/", "help", "/", "a">>      *)
(* and Python's `pattern in url` is the contiguous-subsequence test.       *)
(* The text of a page element is a name that stands for its trimmed length.*)
(***************************************************************************)
EXTENDS Integers, Sequences, FiniteSets, TLC

VARIABLES
    config,        \* the ParserConfig the parser was constructed with
    site,          \* the web: url -> page, as far as it has been observed
    pool,          \* what a page not yet observed may carry: [hrefs, titles, bodies]
    pc,            \* position of run(): "init", "crawl", "done"; "extract" and
                   \* "extracted" around a lone extraction; "clean" in the cleanup
    stack,         \* call stack of parse_page frames, top = last
    visited_urls,  \* self.visited_urls
    articles,      \* self.articles
    failed_urls,   \* self.failed_urls
    stats,         \* self.stats
    cleaner,       \* the DirectoryCleaner of main(): None until it is constructed
    input,         \* the arguments of a function called on its own, else None
    result,        \* the value that call returned, None before it returns
    files,         \* the output directory: file name -> content
    log            \* trace of side effects (sleeps, fetches, writes), oldest first

vars == <<config, site, pool, pc, stack, visited_urls, articles,
          failed_urls, stats, cleaner, input, result, files, log>>

----------------------------------------------------------------------------
(* Bounds of the model *)

\* largest max depth a run is configured with
MaxDepth == 2

\* largest checkpoint interval a run is configured with
MaxInterval == 2

\* most anchors on a page that is chosen when first fetched
MaxLinks == 2

\* most elements in the sibling list of a document given to the extraction
MaxElems == 3

\* most files in the directory given to the cleanup
MaxFiles == 3

\* most runs of the cleanup on one directory
MaxRuns == 2

\* the highest index of an article named on its own
MaxIndex == 100

\* longest company list given to the de-duplication
MaxCompanies == 4

----------------------------------------------------------------------------
(* Strings as token sequences *)

\* Python `p in s` for strings: p occurs as a contiguous piece of s
IsSubstring(p, s) ==
    \E i \in 0..(Len(s) - Len(p)) :
        \A k \in 1..Len(p) : s[i + k] = p[k]

\* s[from:] of a sequence (1-based from)
Drop(s, n) == SubSeq(s, n + 1, Len(s))

\* urlparse(url).netloc: the piece between "scheme://" and the next "/"
Netloc(url) ==
    IF Len(url) >= 4 /\ url[2] = "/" /\ url[3] = "/" THEN url[4] ELSE ""

\* urlparse(url).path: what follows the netloc
UrlPath(url) ==
    IF Len(url) >= 4 /\ url[2] = "/" /\ url[3] = "/" THEN Drop(url, 4) ELSE url

\* urljoin(current_url, href) for the two href forms the model's pages carry:
\* an absolute URL ("https:" "/" "/" ...) replaces the base, a root-relative
\* path ("/" ...) keeps the base's scheme and netloc
UrlJoin(current_url, href) ==
    IF Len(href) >= 3 /\ href[2] = "/" /\ href[3] = "/" THEN href
    ELSE IF Len(href) >= 1 /\ href[1] = "/" THEN SubSeq(current_url, 1, 4) \o href
    ELSE current_url

----------------------------------------------------------------------------
(* Configuration *)

MIN_PARAGRAPH_LENGTH == 10

\* ParserConfig as written in the source; depth and checkpoint interval are
\* instantiated per run from 0..MaxDepth and 1..MaxInterval
TBANK_BASE_URL ==
    <<"https:", "/", "/", "www.tbank.ru", "/", "invest", "/", "help", "/",
      "educate", "/", "how", "-", "it", "-", "works", "/">>

URL_INCLUDE_PATTERNS == { <<"/", "invest", "/", "help", "/">> }

URL_EXCLUDE_PATTERNS ==
    { <<"/", "login">>, <<"/", "logout">>, <<"/", "api", "/">>,
      <<".pdf">>, <<".jpg">>, <<".png">>, <<"#">> }

ParserConfig(depth, enabled, interval) ==
    [ BASE_URL             |-> TBANK_BASE_URL,
      MAX_RECURSION_DEPTH  |-> depth,
      URL_INCLUDE_PATTERNS |-> URL_INCLUDE_PATTERNS,
      URL_EXCLUDE_PATTERNS |-> URL_EXCLUDE_PATTERNS,
      MIN_PARAGRAPH_LENGTH |-> MIN_PARAGRAPH_LENGTH,
      CHECKPOINT_ENABLED   |-> enabled,
      CHECKPOINT_INTERVAL  |-> interval ]

\* self.allowed_domain
allowed_domain == Netloc(config.BASE_URL)

----------------------------------------------------------------------------
(* Pages and articles *)

\* An optional value (Python None or a value): the empty sequence or <<v>>
None == <<>>

Some(v) == <<v>>

\* Trimmed length of an element's text; texts are named by their length
TextLen(t) ==
    CASE t = "t5"  -> 5
      [] t = "t10" -> 10
      [] t = "t11" -> 11
      [] t = "t20" -> 20
      [] t = "t30" -> 30
      [] t = "\n\n" -> 2
      [] OTHER     -> 0

RECURSIVE SumLen(_)
\* len() of a string given as a sequence of texts
SumLen(s) == IF s = <<>> THEN 0 ELSE TextLen(Head(s)) + SumLen(Tail(s))

RECURSIVE Join(_, _)
\* sep.join(parts); a string is a sequence of texts
Join(sep, parts) ==
    IF parts = <<>> THEN <<>>
    ELSE IF Len(parts) = 1 THEN parts[1]
    ELSE parts[1] \o <<sep>> \o Join(sep, Tail(parts))

\* An element of a parsed page: its tag name, its class and role attributes
\* ("" when absent), its own text ("" when it has none) and its children
Element(tag, class, role, text, kids) ==
    [ tag |-> tag, class |-> class, role |-> role, text |-> text, kids |-> kids ]

RECURSIVE Descendants(_)
\* the elements below a list of sibling elements, in document order
Descendants(nodes) ==
    IF nodes = <<>> THEN <<>>
    ELSE <<Head(nodes)>> \o Descendants(Head(nodes).kids)
                         \o Descendants(Tail(nodes))

\* soup.find(tag, selector), `all` being the document's elements in document
\* order: the first one with that tag whose attribute has the selector's value
Find(all, tag, selector) ==
    LET hits == SelectSeq(all, LAMBDA e : e.tag = tag
                                          /\ e[selector.attr] = selector.value)
    IN  IF hits = <<>> THEN None ELSE Some(hits[1])

\* soup.find(tag)
FindTag(all, tag) ==
    LET hits == SelectSeq(all, LAMBDA e : e.tag = tag)
    IN  IF hits = <<>> THEN None ELSE Some(hits[1])

\* element.find_all(tags): the descendants with one of the tags, in document order
FindAll(element, tags) ==
    SelectSeq(Descendants(element.kids), LAMBDA e : e.tag \in tags)

RECURSIVE TextOf(_)
\* the text pieces of a list of sibling elements and all below them
TextOf(nodes) ==
    IF nodes = <<>> THEN <<>>
    ELSE (IF Head(nodes).text = "" THEN <<>> ELSE <<Head(nodes).text>>)
           \o TextOf(Head(nodes).kids) \o TextOf(Tail(nodes))

\* element.get_text(strip=True)
get_text(element) == TextOf(<<element>>)

\* the selectors with the generic content class tried first
content_selectors_GenericFirst ==
    << [attr |-> "class", value |-> "content"],
       [attr |-> "class", value |-> "article-content"],
       [attr |-> "role",  value |-> "main"],
       [attr |-> "class", value |-> "text-content"] >>

\* content_selectors of extract_article_content, in its order
content_selectors ==
    << [attr |-> "class", value |-> "article-content"],
       [attr |-> "class", value |-> "content"],
       [attr |-> "role",  value |-> "main"],
       [attr |-> "class", value |-> "text-content"] >>

RECURSIVE FirstContainer(_, _)
\* the loop over the selectors: for each, the first div or else the first
\* main element matching it; the first selector with a match decides
FirstContainer(all, selectors) ==
    IF selectors = <<>> THEN None
    ELSE LET div  == Find(all, "div", Head(selectors))
             main == Find(all, "main", Head(selectors))
             hit  == IF div # None THEN div ELSE main
         IN  IF hit # None THEN hit
             ELSE FirstContainer(all, Tail(selectors))

\* main_content of extract_article_content: the container, else the body,
\* else None
find_main_content(nodes) ==
    LET all       == Descendants(nodes)
        container == FirstContainer(all, content_selectors)
    IN  IF container # None THEN container ELSE FindTag(all, "body")

RECURSIVE KeepLongInclusive(_, _)
\* KeepLong keeping the texts as long as the threshold too
KeepLongInclusive(elems, minlen) ==
    IF elems = <<>> THEN <<>>
    ELSE IF Head(elems) # <<>> /\ SumLen(Head(elems)) >= minlen
         THEN <<Head(elems)>> \o KeepLongInclusive(Tail(elems), minlen)
         ELSE KeepLongInclusive(Tail(elems), minlen)

RECURSIVE KeepLong(_, _)
\* content_parts: the texts that are non-empty and longer than the threshold
KeepLong(elems, minlen) ==
    IF elems = <<>> THEN <<>>
    ELSE IF Head(elems) # <<>> /\ SumLen(Head(elems)) > minlen
         THEN <<Head(elems)>> \o KeepLong(Tail(elems), minlen)
         ELSE KeepLong(Tail(elems), minlen)

\* the texts of the p/li/h2/h3/h4 elements of the main content
ParagraphTexts(main_content) ==
    LET paragraphs == FindAll(main_content, {"p", "li", "h2", "h3", "h4"})
    IN  [ i \in DOMAIN paragraphs |-> get_text(paragraphs[i]) ]

\* a section's collection stopping by heading level: an h2's only at an h2
StopsAtByLevel(heading, sibling) ==
    IF heading.tag = "h2" THEN sibling.tag = "h2"
    ELSE sibling.tag \in {"h2", "h3"}

\* `if sibling.name in ['h2', 'h3']: break`
StopsAt(heading, sibling) == sibling.tag \in {"h2", "h3"}

RECURSIVE Collect(_, _)
\* section['content']: the non-empty texts of the p/ul/ol elements among the
\* siblings after the heading, up to the sibling the collection stops at
Collect(heading, siblings) ==
    IF siblings = <<>> THEN <<>>
    ELSE IF StopsAt(heading, Head(siblings)) THEN <<>>
    ELSE (IF Head(siblings).tag \in {"p", "ul", "ol"}
             /\ get_text(Head(siblings)) # <<>>
          THEN <<get_text(Head(siblings))>> ELSE <<>>)
           \o Collect(heading, Tail(siblings))

RECURSIVE SectionsFrom(_)
\* article_data['sections'] for the h2/h3 headings at and below a list of
\* sibling elements, in document order; a heading with nothing collected
\* adds no section
SectionsFrom(siblings) ==
    IF siblings = <<>> THEN <<>>
    ELSE LET e       == Head(siblings)
             content == Collect(e, Tail(siblings))
             own     == IF e.tag \in {"h2", "h3"} /\ content # <<>>
                        THEN << [heading |-> get_text(e), content |-> content] >>
                        ELSE <<>>
         IN  own \o SectionsFrom(e.kids) \o SectionsFrom(Tail(siblings))

\* extract_article_content returning None when no main content is found
extract_article_content_NoneWithoutMain(soup, url) ==
    IF soup = None THEN None
    ELSE LET main_content == find_main_content(soup[1].nodes)
         IN  IF main_content = None THEN None
             ELSE Some([ url      |-> url,
                         title    |-> soup[1].title,
                         content  |-> Join("\n\n",
                                           KeepLong(ParagraphTexts(main_content[1]),
                                                    config.MIN_PARAGRAPH_LENGTH)),
                         sections |-> SectionsFrom(main_content[1].kids) ])

\* extract_article_content(soup, url): None without a page, else the article
\* with the h1 title ('' without one), the joined long paragraphs and the
\* sections of the main content (both empty when there is no main content).
\* A page is [hrefs, title, nodes]: its anchors, the text of its first h1 and
\* the elements below the document root.
extract_article_content(soup, url) ==
    IF soup = None THEN None
    ELSE LET main_content == find_main_content(soup[1].nodes)
         IN  Some([ url      |-> url,
                    title    |-> soup[1].title,
                    content  |-> IF main_content = None THEN <<>>
                                 ELSE Join("\n\n",
                                           KeepLong(ParagraphTexts(main_content[1]),
                                                    config.MIN_PARAGRAPH_LENGTH)),
                    sections |-> IF main_content = None THEN <<>>
                                 ELSE SectionsFrom(main_content[1].kids) ])

\* is_valid_url without the exclude loop
is_valid_url_NoExclude(url) ==
    \E p \in config.URL_INCLUDE_PATTERNS : IsSubstring(p, url)

\* is_valid_url(url): no exclude pattern occurs in it and an include pattern does
is_valid_url(url) ==
    IF \E p \in config.URL_EXCLUDE_PATTERNS : IsSubstring(p, url) THEN FALSE
    ELSE IF \E p \in config.URL_INCLUDE_PATTERNS : IsSubstring(p, url) THEN TRUE
    ELSE FALSE

\* extract_links(soup, current_url): the resolved hrefs on the allowed domain
\* that pass is_valid_url and are not in self.visited_urls (visited)
extract_links(soup, current_url, visited) ==
    IF soup = None THEN {}
    ELSE { full_url \in { UrlJoin(current_url, href) : href \in soup[1].hrefs } :
              /\ Netloc(full_url) = allowed_domain
              /\ is_valid_url(full_url)
              /\ full_url \notin visited }

----------------------------------------------------------------------------
(* File names *)

\* character classes of the regular expressions in sanitize_filename;
\* a token is one character or a word of \w characters
IsPunctTok(t) == t \in {"!", "?", ".", ",", ":", "/", "#", "\n\n"}

\* str.lower() on the tokens the model uses
Lower(t) ==
    CASE t = "T" -> "t"
      [] t = "A" -> "a"
      [] t = "Title" -> "title"
      [] OTHER -> t

\* len() of a token
TokLen(t) ==
    CASE t \in {"Title", "title", "works"} -> 5
      [] t \in {"invest"} -> 6
      [] t \in {"educate"} -> 7
      [] t \in {"help"} -> 4
      [] t \in {"how"} -> 3
      [] t \in {"it"} -> 2
      [] OTHER -> 1

RECURSIVE RemovePunct(_)
\* re.sub(r'[^\w\s-]', '', text)
RemovePunct(s) ==
    IF s = <<>> THEN <<>>
    ELSE IF IsPunctTok(Head(s)) THEN RemovePunct(Tail(s))
    ELSE <<Head(s)>> \o RemovePunct(Tail(s))

RECURSIVE SquashRuns(_, _, _)
\* re.sub(cls+, '_', text): every maximal run of tokens of the class becomes "_"
SquashRuns(s, cls, inRun) ==
    IF s = <<>> THEN <<>>
    ELSE IF Head(s) \in cls
         THEN (IF inRun THEN <<>> ELSE <<"_">>) \o SquashRuns(Tail(s), cls, TRUE)
         ELSE <<Head(s)>> \o SquashRuns(Tail(s), cls, FALSE)

\* the class [-\s]
DashOrSpace == {"-", " ", "\t"}

\* the class _
Underscore == {"_"}

RECURSIVE TakeChars(_, _)
\* text[:n], for texts whose cut falls between tokens
TakeChars(s, n) ==
    IF s = <<>> \/ TokLen(Head(s)) > n THEN <<>>
    ELSE <<Head(s)>> \o TakeChars(Tail(s), n - TokLen(Head(s)))

RECURSIVE StripLeft(_)
StripLeft(s) ==
    IF s # <<>> /\ Head(s) = "_" THEN StripLeft(Tail(s)) ELSE s

RECURSIVE StripRight(_)
StripRight(s) ==
    IF s # <<>> /\ s[Len(s)] = "_" THEN StripRight(SubSeq(s, 1, Len(s) - 1)) ELSE s

\* sanitize_filename(text, max_length = 100)
sanitize_filename(text) ==
    LET a == RemovePunct(text)
        b == SquashRuns(a, DashOrSpace, FALSE)
        c == SquashRuns(b, Underscore, FALSE)
        d == StripRight(StripLeft(TakeChars(c, 100)))
    IN  [i \in 1..Len(d) |-> Lower(d[i])]

\* one decimal digit as a character
Digit(n) == <<"0", "1", "2", "3", "4", "5", "6", "7", "8", "9">>[n + 1]

RECURSIVE Decimal(_)
\* str(n) for n >= 0
Decimal(n) == IF n < 10 THEN <<Digit(n)>> ELSE Decimal(n \div 10) \o <<Digit(n % 10)>>

\* f"{index:03d}"
Pad3(index) ==
    LET d == Decimal(index)
    IN  IF Len(d) >= 3 THEN d
        ELSE IF Len(d) = 2 THEN <<"0">> \o d
        ELSE <<"0", "0">> \o d

RECURSIVE StripSlashes(_)
\* the path without its trailing "/" pieces
StripSlashes(path) ==
    IF path # <<>> /\ path[Len(path)] = "/"
    THEN StripSlashes(SubSeq(path, 1, Len(path) - 1)) ELSE path

RECURSIVE AfterLastSlash(_)
\* what follows the last "/" of the path
AfterLastSlash(path) ==
    IF path = <<>> \/ path[Len(path)] = "/" THEN <<>>
    ELSE AfterLastSlash(SubSeq(path, 1, Len(path) - 1)) \o <<path[Len(path)]>>

\* [p for p in url_path.split('/') if p][-1], <<>> when there is no part
LastSegment(path) == AfterLastSlash(StripSlashes(path))

\* generate_filename without the fallback to the url
generate_filename_TitleOnly(article, index) ==
    LET from_title == sanitize_filename(article.title)
        base_name  == IF article.title # <<>> /\ from_title # <<>> THEN from_title
                      ELSE <<"article">>
    IN  Pad3(index) \o <<"_">> \o base_name \o <<".json">>

\* generate_filename(article, index)
generate_filename(article, index) ==
    LET from_title == sanitize_filename(article.title)
        from_url   == sanitize_filename(LastSegment(UrlPath(article.url)))
        base_name  == IF article.title # <<>> /\ from_title # <<>> THEN from_title
                      ELSE IF LastSegment(UrlPath(article.url)) # <<>> /\ from_url # <<>>
                           THEN from_url
                      ELSE <<"article">>
    IN  Pad3(index) \o <<"_">> \o base_name \o <<".json">>

\* f"checkpoint_{n}_articles.json"
CheckpointName(n) == <<"checkpoint_">> \o Decimal(n) \o <<"_", "articles", ".json">>

\* "all_articles.json"
FinalName == <<"all_", "articles", ".json">>

----------------------------------------------------------------------------
(* The crawl: TBankKnowledgeParser *)

\* the output directory with no file in it
EmptyDir == [name \in {} |-> <<>>]

\* open(path, 'w') + json.dump(content): creates or overwrites the file
WriteFile(fs, name, content) == (name :> content) @@ fs

\* an entry of the side-effect trace; the entry of a visit holds in `links`
\* the URL of the page whose link loop made the call, none for the start URL
Event(op, url, n, links) == [op |-> op, url |-> url, n |-> n, links |-> links]

\* a parse_page activation: "call" before its body ran, "loop" inside the
\* `for link in links` loop with the links still to be followed
Frame(url, depth, at, links) == [url |-> url, depth |-> depth, at |-> at, links |-> links]

Top == stack[Len(stack)]

Pop(stk) == SubSeq(stk, 1, Len(stk) - 1)

\* the guard without its visited test
ShouldSkipDepthOnly(url, depth) == depth > config.MAX_RECURSION_DEPTH

\* the guard of parse_page: `url in self.visited_urls or depth > max_depth`
ShouldSkip(url, depth) ==
    url \in visited_urls \/ depth > config.MAX_RECURSION_DEPTH

\* get_page_content swallowing the error without recording the URL
get_page_content_DropsFailure(url, ok, page, st, failed) ==
    LET st1 == [st EXCEPT !.total_requests = @ + 1]
    IN  IF ok
        THEN [ soup   |-> Some(page),
               stats  |-> [st1 EXCEPT !.successful_requests = @ + 1],
               failed |-> failed ]
        ELSE [ soup   |-> None,
               stats  |-> [st1 EXCEPT !.failed_requests = @ + 1],
               failed |-> failed ]

\* get_page_content handing the page back although the request failed
get_page_content_KeepsPage(url, ok, page, st, failed) ==
    LET st1 == [st EXCEPT !.total_requests = @ + 1]
    IN  IF ok
        THEN [ soup   |-> Some(page),
               stats  |-> [st1 EXCEPT !.successful_requests = @ + 1],
               failed |-> failed ]
        ELSE [ soup   |-> Some(page),
               stats  |-> [st1 EXCEPT !.failed_requests = @ + 1],
               failed |-> Append(failed, url) ]

\* get_page_content not counting the failed request
get_page_content_UncountedFailure(url, ok, page, st, failed) ==
    LET st1 == [st EXCEPT !.total_requests = @ + 1]
    IN  IF ok
        THEN [ soup   |-> Some(page),
               stats  |-> [st1 EXCEPT !.successful_requests = @ + 1],
               failed |-> failed ]
        ELSE [ soup   |-> None,
               stats  |-> st1,
               failed |-> Append(failed, url) ]

\* get_page_content(url) with the outcome of requests.get / raise_for_status
\* given: ok and the page served.  Yields the soup, the stats and failed_urls.
get_page_content(url, ok, page, st, failed) ==
    LET st1 == [st EXCEPT !.total_requests = @ + 1]
    IN  IF ok
        THEN [ soup   |-> Some(page),
               stats  |-> [st1 EXCEPT !.successful_requests = @ + 1],
               failed |-> failed ]
        ELSE [ soup   |-> None,
               stats  |-> [st1 EXCEPT !.failed_requests = @ + 1],
               failed |-> Append(failed, url) ]

\* the acceptance test without the content test: `if article`
IsAcceptedAnyContent(article) == article # None

\* `if article and article['content']`
IsAccepted(article) == article # None /\ article[1].content # <<>>

\* the checkpoint condition counting from the article before
CheckpointDueOffByOne(arts) ==
    /\ config.CHECKPOINT_ENABLED
    /\ (Len(arts) - 1) % config.CHECKPOINT_INTERVAL = 0
    /\ Len(arts) > 0

\* the condition of save_checkpoint on the articles collected so far
CheckpointDue(arts) ==
    /\ config.CHECKPOINT_ENABLED
    /\ Len(arts) % config.CHECKPOINT_INTERVAL = 0
    /\ Len(arts) > 0

\* the checkpoint holding the latest article only
save_checkpoint_LatestOnly(fs, arts) ==
    IF CheckpointDue(arts)
    THEN WriteFile(fs, CheckpointName(Len(arts)), <<arts[Len(arts)]>>) ELSE fs

\* save_checkpoint(): the directory afterwards
save_checkpoint(fs, arts) ==
    IF CheckpointDue(arts) THEN WriteFile(fs, CheckpointName(Len(arts)), arts) ELSE fs

\* the article's file named without regard to its index
save_article_SameIndex(fs, article, index) ==
    WriteFile(fs, generate_filename(article, 0), article)

\* save_article(article, index): the directory afterwards
save_article(fs, article, index) ==
    WriteFile(fs, generate_filename(article, index), article)

\* the link test with <= for <
MayFollowLinksInclusive(depth) == depth <= config.MAX_RECURSION_DEPTH

\* `if depth < max_depth` before extract_links
MayFollowLinks(depth) == depth < config.MAX_RECURSION_DEPTH

\* links taken only from a page whose article was accepted
LinkSourceAcceptedOnly(soup, article) == IF IsAccepted(article) THEN soup ELSE None

\* the soup handed to extract_links: the one fetched, whatever became of
\* its article
LinkSource(soup, article) == soup

\* the pages a URL may serve: the page already observed there, or any page
\* the pool allows with at most MaxLinks anchors
PagesAt(url) ==
    IF url \in DOMAIN site THEN {site[url]}
    ELSE [ hrefs : {S \in SUBSET pool.hrefs : Cardinality(S) <= MaxLinks},
           title : pool.titles,
           nodes : pool.bodies ]

\* the delay condition with the first visited URL included
ShouldSleepAlways(visited) == Cardinality(visited) >= 1

\* `if len(self.visited_urls) > 1` before time.sleep(REQUEST_DELAY)
ShouldSleep(visited) == Cardinality(visited) > 1

\* the file index counted from zero
article_index_FromZero(arts) == Len(arts) - 1

\* article_index = len(self.articles), read after the append
article_index(arts) == Len(arts)

\* a link's depth two below its page's
ChildDepthSkipping(depth) == depth + 2

\* the depth argument of the recursive call: depth + 1
ChildDepth(depth) == depth + 1

\* run(), up to the call parse_page(self.config.BASE_URL)
Run ==
    /\ pc = "init"
    /\ pc' = "crawl"
    /\ stack' = <<Frame(config.BASE_URL, 0, "call", {})>>
    /\ UNCHANGED <<config, site, pool, visited_urls, articles, failed_urls,
                   stats, cleaner, input, result, files, log>>

\* parse_page(url, depth) returning at its guard
ParsePageSkip ==
    /\ pc = "crawl"
    /\ stack # <<>>
    /\ Top.at = "call"
    /\ ShouldSkip(Top.url, Top.depth)
    /\ stack' = Pop(stack)
    /\ UNCHANGED <<config, site, pool, pc, visited_urls, articles, failed_urls,
                   stats, cleaner, input, result, files, log>>

\* the body of parse_page(url, depth) from the guard to the link loop:
\* mark visited, sleep, fetch, extract the article, store and persist it,
\* checkpoint, extract the links
ParsePageVisit(ok, page) ==
    /\ pc = "crawl"
    /\ stack # <<>>
    /\ Top.at = "call"
    /\ ~ShouldSkip(Top.url, Top.depth)
    /\ LET url      == Top.url
           depth    == Top.depth
           caller   == IF Len(stack) > 1 THEN {stack[Len(stack) - 1].url} ELSE {}
           visited1 == visited_urls \cup {url}
           slept    == IF ShouldSleep(visited1)
                       THEN <<Event("sleep", url, depth, {})>> ELSE <<>>
           got      == get_page_content(url, ok, page, stats, failed_urls)
           soup     == got.soup
           article  == extract_article_content(soup, url)
           st2      == IF soup = None THEN got.stats
                       ELSE [got.stats EXCEPT
                               !.total_chars = @ + SumLen(article[1].content)]
           accepted == IsAccepted(article)
           arts1    == IF accepted THEN Append(articles, article[1]) ELSE articles
           st3      == IF accepted THEN [st2 EXCEPT !.total_articles = @ + 1] ELSE st2
           index    == article_index(arts1)
           fs1      == IF accepted
                       THEN save_checkpoint(save_article(files, article[1], index), arts1)
                       ELSE files
           wrote    == IF accepted
                       THEN <<Event("save", url, index, {})>>
                            \o (IF CheckpointDue(arts1)
                                THEN <<Event("checkpoint", url, Len(arts1), {})>>
                                ELSE <<>>)
                       ELSE <<>>
           follow   == MayFollowLinks(depth)
           links    == IF follow
                       THEN extract_links(LinkSource(soup, article), url, visited1)
                       ELSE {}
           st4      == IF follow
                       THEN [st3 EXCEPT !.total_links_found = @ + Cardinality(links)]
                       ELSE st3
           found    == IF follow THEN <<Event("links", url, depth, links)>> ELSE <<>>
       IN  /\ visited_urls' = visited1
           /\ failed_urls' = got.failed
           /\ articles' = arts1
           /\ stats' = st4
           /\ files' = fs1
           /\ site' = IF ok THEN (url :> page) @@ site ELSE site
           /\ log' = log \o <<Event("visit", url, depth, caller)>> \o slept
                         \o <<Event(IF ok THEN "fetch_ok" ELSE "fetch_err", url, depth, {})>>
                         \o wrote \o found
           /\ stack' = Append(Pop(stack), Frame(url, depth, "loop", links))
    /\ UNCHANGED <<config, pool, pc, cleaner, input, result>>

\* the link loop calling parse_page on a link without moving on to the next
LoopNextKeepsLink(link) ==
    /\ pc = "crawl"
    /\ stack # <<>>
    /\ Top.at = "loop"
    /\ link \in Top.links
    /\ stack' = Append(stack, Frame(link, ChildDepth(Top.depth), "call", {}))
    /\ UNCHANGED <<config, site, pool, pc, visited_urls, articles, failed_urls,
                   stats, cleaner, input, result, files, log>>

\* one iteration of `for link in links`: the call parse_page(link, depth + 1)
LoopNext(link) ==
    /\ pc = "crawl"
    /\ stack # <<>>
    /\ Top.at = "loop"
    /\ link \in Top.links
    /\ stack' = Append(Append(Pop(stack), [Top EXCEPT !.links = @ \ {link}]),
                       Frame(link, ChildDepth(Top.depth), "call", {}))
    /\ UNCHANGED <<config, site, pool, pc, visited_urls, articles, failed_urls,
                   stats, cleaner, input, result, files, log>>

\* parse_page returning after its last link
ParsePageReturn ==
    /\ pc = "crawl"
    /\ stack # <<>>
    /\ Top.at = "loop"
    /\ Top.links = {}
    /\ stack' = Pop(stack)
    /\ UNCHANGED <<config, site, pool, pc, visited_urls, articles, failed_urls,
                   stats, cleaner, input, result, files, log>>

\* save_final dropping the last article
save_final_Truncated(fs, arts) ==
    WriteFile(fs, FinalName, SubSeq(arts, 1, Len(arts) - 1))

\* save_final(): the directory afterwards
save_final(fs, arts) == WriteFile(fs, FinalName, arts)

\* run(), after parse_page returned: print_stats, save_final, return
RunFinish ==
    /\ pc = "crawl"
    /\ stack = <<>>
    /\ files' = save_final(files, articles)
    /\ log' = Append(log, Event("final", <<>>, Len(articles), {}))
    /\ pc' = "done"
    /\ UNCHANGED <<config, site, pool, stack, visited_urls, articles, failed_urls,
                   stats, cleaner, input, result>>

\* parse_page's body with every outcome of the fetch
Visit ==
    /\ stack # <<>>
    /\ \E ok \in BOOLEAN : \E page \in PagesAt(Top.url) : ParsePageVisit(ok, page)

\* the link loop taking the links in any order (links is a set)
Follow ==
    /\ stack # <<>>
    /\ \E link \in Top.links : LoopNext(link)

Next ==
    \/ Run
    \/ ParsePageSkip
    \/ Visit
    \/ Follow
    \/ ParsePageReturn
    \/ RunFinish

\* self.stats after __init__
InitStats ==
    [ total_requests |-> 0, successful_requests |-> 0, failed_requests |-> 0,
      total_links_found |-> 0, total_articles |-> 0, total_chars |-> 0 ]

\* the state after TBankKnowledgeParser.__init__
Constructed ==
    /\ pc = "init"
    /\ stack = <<>>
    /\ visited_urls = {}
    /\ articles = <<>>
    /\ failed_urls = <<>>
    /\ stats = InitStats
    /\ cleaner = None
    /\ input = None
    /\ result = None
    /\ files = EmptyDir
    /\ log = <<>>

\* URLs of the knowledge base under the include pattern
HelpUrl(seg) ==
    <<"https:", "/", "/", "www.tbank.ru", "/", "invest", "/", "help", "/", seg>>

\* a paragraph element
P(text) == Element("p", "", "", text, <<>>)

\* a document whose body holds a content container with the paragraphs
Document(texts) ==
    << Element("body", "", "", "",
               << Element("div", "content", "", "",
                          [i \in DOMAIN texts |-> P(texts[i])]) >>) >>

\* page bodies: one whose paragraphs are all too short, one with long ones
Bodies == { Document(<<"t5", "t10">>), Document(<<"t5", "t20", "t30">>) }

\* the configurations of a run: every depth within the bound, checkpoints
\* enabled with every interval within the bound, or disabled
Configs ==
    { ParserConfig(d, TRUE, k) : d \in 0..MaxDepth, k \in 1..MaxInterval }
      \cup { ParserConfig(d, FALSE, MaxInterval) : d \in 0..MaxDepth }

\* a crawl from the start page of an arbitrary site whose pages link to
\* three further eligible URLs (with cycles and self-links), under every
\* configuration
Init ==
    /\ Constructed
    /\ config \in Configs
    /\ site = [u \in {} |-> <<>>]
    /\ pool = [ hrefs  |-> {HelpUrl("a"), HelpUrl("b"), HelpUrl("c")},
                titles |-> {<<"Title">>},
                bodies |-> Bodies ]

Spec == Init /\ [][Next]_vars

\* the crawl as a running program: a sequential process that is not stopped
\* takes its next step, every fetch returning or raising (requests.get has a
\* timeout); checkpoints, which do not bear on the control flow, are off
InitRunning == Init /\ ~config.CHECKPOINT_ENABLED

SpecRunning == InitRunning /\ [][Next]_vars /\ WF_vars(Next)

----------------------------------------------------------------------------
(* A second configuration: start https://example.com/help/, allow /help/,  *)
(* deny /login, on a site whose start page carries any set of eligible and *)
(* ineligible anchors                                                      *)

EXAMPLE_BASE_URL == <<"https:", "/", "/", "example.com", "/", "help", "/">>

ExampleConfig(depth) ==
    [ BASE_URL             |-> EXAMPLE_BASE_URL,
      MAX_RECURSION_DEPTH  |-> depth,
      URL_INCLUDE_PATTERNS |-> { <<"/", "help", "/">> },
      URL_EXCLUDE_PATTERNS |-> { <<"/", "login">> },
      MIN_PARAGRAPH_LENGTH |-> MIN_PARAGRAPH_LENGTH,
      CHECKPOINT_ENABLED   |-> TRUE,
      CHECKPOINT_INTERVAL  |-> MaxInterval ]

ExampleA == <<"https:", "/", "/", "example.com", "/", "help", "/", "a">>

ExampleB == <<"https:", "/", "/", "example.com", "/", "help", "/", "b">>

\* the same page as ExampleB, written as a root-relative href
ExampleBRelative == <<"/", "help", "/", "b">>

ExampleLogin == <<"https:", "/", "/", "example.com", "/", "login">>

\* matches the allow pattern and the deny pattern
ExampleHelpLogin == <<"https:", "/", "/", "example.com", "/", "help", "/", "login">>

\* matches neither pattern
ExampleAbout == <<"https:", "/", "/", "example.com", "/", "about">>

\* another network domain, matching the allow pattern
OtherC == <<"https:", "/", "/", "other.com", "/", "help", "/", "c">>

ExampleHrefs ==
    { ExampleA, ExampleB, ExampleBRelative, ExampleLogin, ExampleHelpLogin,
      ExampleAbout, OtherC }

\* the anchors of the start page in the scenario
ScenarioHrefs == { ExampleA, ExampleB, ExampleLogin, OtherC }

ExamplePage(hrefs) ==
    [ hrefs |-> hrefs, title |-> <<"Title">>,
      nodes |-> Document(<<"t5", "t20", "t30">>) ]

InitFilter ==
    /\ Constructed
    /\ config \in { ExampleConfig(d) : d \in 1..MaxDepth }
    /\ \E S \in SUBSET ExampleHrefs :
          site = (EXAMPLE_BASE_URL :> ExamplePage(S))
                   @@ (ExampleA :> ExamplePage({ExampleBRelative}))
                   @@ (ExampleB :> ExamplePage({ExampleA}))
    /\ pool = [ hrefs  |-> {},
                titles |-> {<<"Title">>},
                bodies |-> Bodies ]

SpecFilter == InitFilter /\ [][Next]_vars

----------------------------------------------------------------------------
(* extract_article_content called on its own, on every page of a bounded   *)
(* set of documents                                                        *)

\* a text-carrying element without attributes or children
Leaf(tag, text) == Element(tag, "", "", text, <<>>)

\* a list element with one li per text
ListOf(tag, texts) ==
    Element(tag, "", "", "", [i \in DOMAIN texts |-> Leaf("li", texts[i])])

\* the elements a sibling list of the bounded documents is made of
Leaves ==
    { Leaf("p", t) : t \in {"", "t5", "t10", "t11", "t20", "t30"} }
      \cup { Leaf("h2", "t11"), Leaf("h3", "t20"), Leaf("h4", "t11"),
             Leaf("span", "t20"),
             ListOf("ul", <<"t5", "t20">>), ListOf("ol", <<>>) }

\* the sibling lists of at most MaxElems elements
SiblingLists == UNION { [1..k -> Leaves] : k \in 0..MaxElems }

\* an element with a class attribute holding the siblings
Classed(tag, class, siblings) == Element(tag, class, "", "", siblings)

\* a <body> holding the elements
Body(nodes) == Element("body", "", "", "", nodes)

\* the shapes of the bounded documents around a sibling list
Layouts ==
    { "body", "body_container", "bare", "bare_container", "body_other_div",
      "body_two_containers" }

\* the elements below the document root in each shape
DocumentOf(layout, siblings) ==
    CASE layout = "body" -> << Body(siblings) >>
      [] layout = "body_container" ->
            << Body(<< Classed("div", "content", siblings) >>) >>
      [] layout = "bare" -> siblings
      [] layout = "bare_container" ->
            << Classed("main", "article-content", siblings) >>
      [] layout = "body_other_div" ->
            << Body(<< Classed("div", "sidebar", siblings) >>) >>
      [] layout = "body_two_containers" ->
            << Body(<< Classed("div", "text-content", << Leaf("p", "t30") >>),
                       Classed("div", "content", siblings) >>) >>

\* the calls: no page (the fetch failed), or a page of every shape around
\* every sibling list
ExtractInputs ==
    { [ soup |-> None, url |-> TBANK_BASE_URL, layout |-> "none",
        siblings |-> <<>> ] }
      \cup { [ soup     |-> Some([ hrefs |-> {}, title |-> <<"Title">>,
                                   nodes |-> DocumentOf(l, s) ]),
               url      |-> TBANK_BASE_URL,
               layout   |-> l,
               siblings |-> s ] : l \in Layouts, s \in SiblingLists }

InitExtract ==
    /\ config = ParserConfig(0, TRUE, 1)
    /\ site = [u \in {} |-> <<>>]
    /\ pool = [ hrefs |-> {}, titles |-> {<<"Title">>}, bodies |-> Bodies ]
    /\ pc = "extract"
    /\ stack = <<>>
    /\ visited_urls = {}
    /\ articles = <<>>
    /\ failed_urls = <<>>
    /\ stats = InitStats
    /\ cleaner = None
    /\ input \in ExtractInputs
    /\ result = None
    /\ files = EmptyDir
    /\ log = <<>>

\* the call extract_article_content(soup, url) and its return
Extract ==
    /\ pc = "extract"
    /\ LET article == extract_article_content(input.soup, input.url)
       IN  /\ result' = article
           /\ stats' = IF article = None THEN stats
                       ELSE [stats EXCEPT
                               !.total_chars = @ + SumLen(article[1].content)]
    /\ pc' = "extracted"
    /\ UNCHANGED <<config, site, pool, stack, visited_urls, articles,
                   failed_urls, cleaner, input, files, log>>

NextExtract == Extract

SpecExtract == InitExtract /\ [][NextExtract]_vars

\* the attribute a container of each kind carries: the four selectors of
\* content_selectors, and a class none of them matches
KindAttrs ==
    << [class |-> "article-content", role |-> ""],
       [class |-> "content",         role |-> ""],
       [class |-> "",                role |-> "main"],
       [class |-> "text-content",    role |-> ""],
       [class |-> "sidebar",         role |-> ""] >>

\* the kinds of container: a div or a main element with one of the attributes
Kinds == [ tag : {"div", "main"}, attrs : DOMAIN KindAttrs ]

\* a container of the kind holding the siblings
ContainerOf(kind, siblings) ==
    Element(kind.tag, KindAttrs[kind.attrs].class, KindAttrs[kind.attrs].role,
            "", siblings)

\* the sibling lists of at most one element
ShortLists == UNION { [1..k -> Leaves] : k \in 0..1 }

\* the calls on pages whose body holds two containers of any two kinds, the
\* first around a short sibling list and the second around one long paragraph
SelectorInputs ==
    { [ soup     |-> Some([ hrefs |-> {}, title |-> <<"Title">>,
                            nodes |-> << Body(<< ContainerOf(k1, s),
                                                 ContainerOf(k2, << Leaf("p", "t30") >>)
                                              >>) >> ]),
        url      |-> TBANK_BASE_URL,
        layout   |-> "two_kinds",
        siblings |-> s ] : k1 \in Kinds, k2 \in Kinds, s \in ShortLists }

InitSelectors ==
    /\ config = ParserConfig(0, TRUE, 1)
    /\ site = [u \in {} |-> <<>>]
    /\ pool = [ hrefs |-> {}, titles |-> {<<"Title">>}, bodies |-> Bodies ]
    /\ pc = "extract"
    /\ stack = <<>>
    /\ visited_urls = {}
    /\ articles = <<>>
    /\ failed_urls = <<>>
    /\ stats = InitStats
    /\ cleaner = None
    /\ input \in SelectorInputs
    /\ result = None
    /\ files = EmptyDir
    /\ log = <<>>

SpecSelectors == InitSelectors /\ [][NextExtract]_vars

\* titles of articles: none, a word, punctuation only, words with
\* punctuation, spaces and a dash, separators only, a word between underscores
FilenameTitles ==
    { <<>>, <<"Title">>, <<"!", "?">>,
      <<"Title", ":", " ", "how", " ", "-", " ", "it", "!">>,
      <<" ", "-", " ">>, <<"_", "Title", "_">> }

\* urls of articles: path ending in a slash, path ending in a segment, path
\* "/", no path, and a last segment of punctuation only
FilenameUrls ==
    { TBANK_BASE_URL, HelpUrl("a"), <<"https:", "/", "/", "www.tbank.ru", "/">>,
      <<"https:", "/", "/", "www.tbank.ru">>, HelpUrl("!") }

\* the calls generate_filename(article, index)
FilenameInputs ==
    { [ article |-> [ url |-> u, title |-> t, content |-> <<"t20">>,
                      sections |-> <<>> ],
        index   |-> i ] : u \in FilenameUrls, t \in FilenameTitles,
                          i \in 1..MaxIndex }

InitFilename ==
    /\ config = ParserConfig(0, TRUE, 1)
    /\ site = [u \in {} |-> <<>>]
    /\ pool = [ hrefs |-> {}, titles |-> {<<"Title">>}, bodies |-> Bodies ]
    /\ pc = "name"
    /\ stack = <<>>
    /\ visited_urls = {}
    /\ articles = <<>>
    /\ failed_urls = <<>>
    /\ stats = InitStats
    /\ cleaner = None
    /\ input \in FilenameInputs
    /\ result = None
    /\ files = EmptyDir
    /\ log = <<>>

\* the call generate_filename(article, index) and its return
GenerateFilename ==
    /\ pc = "name"
    /\ result' = Some(generate_filename(input.article, input.index))
    /\ pc' = "named"
    /\ UNCHANGED <<config, site, pool, stack, visited_urls, articles,
                   failed_urls, stats, cleaner, input, files, log>>

NextFilename == GenerateFilename

SpecFilename == InitFilename /\ [][NextFilename]_vars

----------------------------------------------------------------------------
(* The cleanup: DirectoryCleaner on the output directory                   *)

\* str.startswith(p)
StartsWith(s, p) == Len(s) >= Len(p) /\ SubSeq(s, 1, Len(p)) = p

\* self.directory.glob("*.json"): the names in the directory ending in .json
GlobJson(fs) == { name \in DOMAIN fs : name # <<>> /\ name[Len(name)] = ".json" }

\* self.directory.glob("checkpoint_*.json")
GlobCheckpoints(fs) == { name \in GlobJson(fs) : StartsWith(name, <<"checkpoint_">>) }

\* filepath.name.startswith(('checkpoint_', 'all_'))
IsSpecial(name) ==
    StartsWith(name, <<"checkpoint_">>) \/ StartsWith(name, <<"all_">>)

\* the characters str.isdigit() accepts among the model's tokens
DigitChars == {"0", "1", "2", "3", "4", "5", "6", "7", "8", "9"}

\* len(filename) > 4 and filename[:3].isdigit() and filename[3] == '_';
\* the first four tokens of such a name are single characters
IsNumbered(filename) ==
    /\ Len(filename) > 4
    /\ \A i \in 1..3 : filename[i] \in DigitChars
    /\ filename[4] = "_"

\* new_name = filename[4:]
StripNumber(filename) == SubSeq(filename, 5, Len(filename))

\* filepath.unlink()
Unlink(fs, name) == [n \in DOMAIN fs \ {name} |-> fs[n]]

\* shutil.copy2(filepath, new_path)
Copy2(fs, filepath, new_path) == (new_path :> fs[filepath]) @@ fs

\* the content of a file that is not JSON
Garbage == [garbage |-> TRUE]

\* json.load(f): None when it raises, else the data
json_load(content) ==
    IF "garbage" \in DOMAIN content THEN None ELSE Some(content)

\* data.get('url', '')
UrlOf(data) == IF "url" \in DOMAIN data THEN data.url ELSE <<>>

\* the cleaner unlinking the file it saw first for the url
DuplicateToUnlinkFirstSeen(files_by_url, url, filepath) == files_by_url[url]

\* the file remove_duplicates unlinks when the url was seen before: the
\* current one
DuplicateToUnlink(files_by_url, url, filepath) == filepath

\* the numbered file is deleted only when its unprefixed copy holds the
\* same content
ShouldUnlinkNumberedIfCopied(fs, filename) ==
    /\ IsNumbered(filename)
    /\ StripNumber(filename) \in DOMAIN fs
    /\ fs[StripNumber(filename)] = fs[filename]

\* the condition of remove_numbered_files for deleting a file
ShouldUnlinkNumbered(fs, filename) == IsNumbered(filename)

\* the read error ending the loop of remove_duplicates
AfterReadErrorAborting(rest, filepath) ==
    [rest EXCEPT !.reported = @ \cup {filepath}, !.pending = {}]

\* the except branch of remove_duplicates: the error is printed with the
\* file's name and the loop goes on
AfterReadError(rest, filepath) == [rest EXCEPT !.reported = @ \cup {filepath}]

\* DirectoryCleaner.__init__: the counters
CleanerStats ==
    [ duplicates_removed |-> 0, files_renamed |-> 0, checkpoints_removed |-> 0,
      numbered_removed |-> 0 ]

\* the cleaner after DirectoryCleaner(directory): the method of run() it is
\* in, the files its loop has still to yield, files_by_url, the counters;
\* and for the record the files whose read error was printed, the runs
\* completed, the directory before the first run and after it
NewCleaner(fs) ==
    [ step |-> "constructed", pending |-> {}, files_by_url |-> <<>>,
      stats |-> CleanerStats, reported |-> {}, runs |-> 0, before |-> fs,
      after_first |-> fs ]

\* the variables the cleanup does not touch
crawl_vars ==
    <<config, site, pool, pc, stack, visited_urls, articles, failed_urls, stats,
      input, result, log>>

\* cleaner.run() is called: remove_duplicates starts its loop
CleanerRun ==
    /\ pc = "clean"
    /\ cleaner.step \in {"constructed", "finished"}
    /\ cleaner.runs < MaxRuns
    /\ cleaner' = [cleaner EXCEPT !.step = "remove_duplicates",
                                  !.pending = GlobJson(files),
                                  !.files_by_url = <<>>]
    /\ UNCHANGED <<crawl_vars, files>>

\* one iteration of the loop of remove_duplicates
RemoveDuplicates(filepath) ==
    /\ pc = "clean"
    /\ cleaner.step = "remove_duplicates"
    /\ filepath \in cleaner.pending
    /\ LET data == json_load(files[filepath])
           url  == UrlOf(data[1])
           rest == [cleaner EXCEPT !.pending = @ \ {filepath}]
       IN  IF IsSpecial(filepath)
           THEN /\ cleaner' = rest
                /\ files' = files
           ELSE IF data = None
           THEN /\ cleaner' = AfterReadError(rest, filepath)
                /\ files' = files
           ELSE IF url = <<>>
           THEN /\ cleaner' = rest
                /\ files' = files
           ELSE IF url \in DOMAIN cleaner.files_by_url
           THEN /\ files' = Unlink(files,
                                   DuplicateToUnlink(cleaner.files_by_url, url,
                                                     filepath))
                /\ cleaner' = [rest EXCEPT !.stats.duplicates_removed = @ + 1]
           ELSE /\ cleaner' = [rest EXCEPT
                                 !.files_by_url = (url :> filepath) @@ @]
                /\ files' = files
    /\ UNCHANGED crawl_vars

\* remove_duplicates returns and remove_numbering starts its loop
RemoveDuplicatesEnd ==
    /\ pc = "clean"
    /\ cleaner.step = "remove_duplicates"
    /\ cleaner.pending = {}
    /\ cleaner' = [cleaner EXCEPT !.step = "remove_numbering",
                                  !.pending = GlobJson(files)]
    /\ UNCHANGED <<crawl_vars, files>>

\* one iteration of the loop of remove_numbering; the loop runs over a lazy
\* glob, which may or may not yield (seen) a file created during the loop
RemoveNumbering(filepath, seen) ==
    /\ pc = "clean"
    /\ cleaner.step = "remove_numbering"
    /\ filepath \in cleaner.pending
    /\ LET new_name == StripNumber(filepath)
           rest     == [cleaner EXCEPT !.pending = @ \ {filepath}]
       IN  IF ~IsSpecial(filepath) /\ IsNumbered(filepath)
              /\ new_name \notin DOMAIN files
           THEN /\ files' = Copy2(files, filepath, new_name)
                /\ cleaner' = [rest EXCEPT
                                 !.stats.files_renamed = @ + 1,
                                 !.pending = IF seen THEN @ \cup {new_name} ELSE @]
           ELSE /\ ~seen
                /\ cleaner' = rest
                /\ files' = files
    /\ UNCHANGED crawl_vars

\* remove_numbering returns and remove_numbered_files lists the directory
RemoveNumberingEnd ==
    /\ pc = "clean"
    /\ cleaner.step = "remove_numbering"
    /\ cleaner.pending = {}
    /\ cleaner' = [cleaner EXCEPT !.step = "remove_numbered_files",
                                  !.pending = GlobJson(files)]
    /\ UNCHANGED <<crawl_vars, files>>

\* one iteration of the loop of remove_numbered_files
RemoveNumberedFiles(filepath) ==
    /\ pc = "clean"
    /\ cleaner.step = "remove_numbered_files"
    /\ filepath \in cleaner.pending
    /\ LET rest == [cleaner EXCEPT !.pending = @ \ {filepath}]
       IN  IF ~IsSpecial(filepath) /\ ShouldUnlinkNumbered(files, filepath)
           THEN /\ files' = Unlink(files, filepath)
                /\ cleaner' = [rest EXCEPT !.stats.numbered_removed = @ + 1]
           ELSE /\ cleaner' = rest
                /\ files' = files
    /\ UNCHANGED crawl_vars

\* remove_numbered_files returns and remove_checkpoints starts its loop
RemoveNumberedFilesEnd ==
    /\ pc = "clean"
    /\ cleaner.step = "remove_numbered_files"
    /\ cleaner.pending = {}
    /\ cleaner' = [cleaner EXCEPT !.step = "remove_checkpoints",
                                  !.pending = GlobCheckpoints(files)]
    /\ UNCHANGED <<crawl_vars, files>>

\* one iteration of the loop of remove_checkpoints
RemoveCheckpoints(filepath) ==
    /\ pc = "clean"
    /\ cleaner.step = "remove_checkpoints"
    /\ filepath \in cleaner.pending
    /\ files' = Unlink(files, filepath)
    /\ cleaner' = [cleaner EXCEPT !.pending = @ \ {filepath},
                                  !.stats.checkpoints_removed = @ + 1]
    /\ UNCHANGED crawl_vars

\* remove_checkpoints returns; verify_cleanup and print_stats only read and
\* print; run() returns
RemoveCheckpointsEnd ==
    /\ pc = "clean"
    /\ cleaner.step = "remove_checkpoints"
    /\ cleaner.pending = {}
    /\ cleaner' = [cleaner EXCEPT
                     !.step = "finished",
                     !.runs = @ + 1,
                     !.after_first = IF cleaner.runs = 0 THEN files ELSE @]
    /\ UNCHANGED <<crawl_vars, files>>

DuplicatesStep == \E filepath \in cleaner.pending : RemoveDuplicates(filepath)

NumberingStep ==
    \E filepath \in cleaner.pending, seen \in BOOLEAN :
        RemoveNumbering(filepath, seen)

NumberedFilesStep == \E filepath \in cleaner.pending : RemoveNumberedFiles(filepath)

CheckpointsStep == \E filepath \in cleaner.pending : RemoveCheckpoints(filepath)

NextClean ==
    \/ CleanerRun
    \/ DuplicatesStep
    \/ RemoveDuplicatesEnd
    \/ NumberingStep
    \/ RemoveNumberingEnd
    \/ NumberedFilesStep
    \/ RemoveNumberedFilesEnd
    \/ CheckpointsStep
    \/ RemoveCheckpointsEnd

\* the urls of two articles
UrlA == HelpUrl("a")

UrlB == HelpUrl("b")

\* the JSON of an article with the given url
ArticleOf(url) ==
    [ url |-> url, title |-> <<"Title">>, content |-> <<"t20">>, sections |-> <<>> ]

\* NNN_<slug>.json
Numbered(index, slug) == Pad3(index) \o <<"_">> \o slug \o <<".json">>

\* per-article file names: numbered ones, two of them with the same slug, one
\* whose slug starts like an index prefix, one whose slug starts with
\* "all_" (a title like "All about ..."), and an unprefixed one
ArticleNames ==
    { Numbered(1, <<"foo">>), Numbered(2, <<"foo">>), Numbered(3, <<"bar">>),
      Numbered(1, <<"0", "0", "2", "_", "foo">>), <<"foo", ".json">>,
      Numbered(4, <<"all_", "about">>) }

\* what a per-article file may hold: an article, an article without url, or
\* something that is not JSON
ArticleContents == { ArticleOf(UrlA), ArticleOf(UrlB), ArticleOf(<<>>), Garbage }

\* the directories of at most MaxFiles files: per-article files of every
\* content, a checkpoint file and the final file
Directories ==
    UNION { { a @@ s : a \in [A -> ArticleContents],
                       s \in [S -> { << ArticleOf(UrlA) >> }] } :
            <<A, S>> \in { <<X, Y>> \in (SUBSET ArticleNames)
                                          \X (SUBSET {CheckpointName(2), FinalName}) :
                              Cardinality(X) + Cardinality(Y) <= MaxFiles } }

\* main() after parser.run(): the cleaner is constructed on the output
\* directory, whatever it holds
InitClean ==
    /\ config = ParserConfig(0, TRUE, 1)
    /\ site = [u \in {} |-> <<>>]
    /\ pool = [ hrefs |-> {}, titles |-> {<<"Title">>}, bodies |-> Bodies ]
    /\ pc = "clean"
    /\ stack = <<>>
    /\ visited_urls = {}
    /\ articles = <<>>
    /\ failed_urls = <<>>
    /\ stats = InitStats
    /\ input = None
    /\ result = None
    /\ log = <<>>
    /\ files \in Directories
    /\ cleaner = NewCleaner(files)

SpecClean == InitClean /\ [][NextClean]_vars

----------------------------------------------------------------------------
(* Reading the trace and the observed web *)

Range(f) == { f[i] : i \in DOMAIN f }

\* positions of the trace entries of the given kinds
EventsOf(ops) == { i \in DOMAIN log : log[i].op \in ops }

FetchEvents == EventsOf({"fetch_ok", "fetch_err"})

\* URLs whose fetch returned a page
FetchedOk == { log[i].url : i \in EventsOf({"fetch_ok"}) }

\* a URL that extract_links may pass on: allowed domain, an include pattern,
\* no exclude pattern
Eligible(url) ==
    /\ Netloc(url) = Netloc(config.BASE_URL)
    /\ \E p \in config.URL_INCLUDE_PATTERNS : IsSubstring(p, url)
    /\ ~ \E p \in config.URL_EXCLUDE_PATTERNS : IsSubstring(p, url)

\* the eligible links of a successfully fetched page
EligibleLinks(url) ==
    IF url \in FetchedOk
    THEN { v \in { UrlJoin(url, h) : h \in site[url].hrefs } : Eligible(v) }
    ELSE {}

RECURSIVE Within(_)
\* URLs reachable from the start URL by at most n eligible links through
\* successfully fetched pages
Within(n) ==
    IF n = 0 THEN {config.BASE_URL}
    ELSE Within(n - 1) \cup UNION { EligibleLinks(u) : u \in Within(n - 1) }

\* the depths at which a URL was marked visited
VisitDepths(url) == { log[i].n : i \in { j \in EventsOf({"visit"}) : log[j].url = url } }

----------------------------------------------------------------------------
(* Claims *)

\* C1: no URL is fetched more than once in a run: every fetch is of a URL
\* marked visited before it, a visited URL stays visited, and a URL whose
\* fetch failed is not fetched again.
NoUrlFetchedTwice ==
    /\ \A i, j \in FetchEvents : log[i].url = log[j].url => i = j
    /\ \A i \in FetchEvents :
          /\ log[i].url \in visited_urls
          /\ \E j \in EventsOf({"visit"}) : j < i /\ log[j].url = log[i].url
    /\ \A i \in EventsOf({"visit"}) : log[i].url \in visited_urls
    /\ \A i, j \in DOMAIN failed_urls : failed_urls[i] = failed_urls[j] => i = j

\* C1 witness: parse_page is called again on a URL whose fetch failed
FailedUrlCalledAgain ==
    /\ pc = "crawl"
    /\ stack # <<>>
    /\ Top.at = "call"
    /\ Top.url \in Range(failed_urls)

\* C2: when the run has finished, every URL within max depth eligible links
\* of the start URL (through successfully fetched pages) was visited, once.
AllReachableVisitedOnce ==
    pc = "done" =>
        \A u \in Within(config.MAX_RECURSION_DEPTH) :
            /\ u \in visited_urls
            /\ Cardinality({ i \in FetchEvents : log[i].url = u }) = 1

\* C3: the start URL is visited at depth 0, no URL is marked visited or
\* fetched at a depth above the maximum, and links are extracted and
\* followed only from pages visited below the maximum depth.
DepthInvariant ==
    /\ \A i \in EventsOf({"visit", "fetch_ok", "fetch_err"}) :
          log[i].n <= config.MAX_RECURSION_DEPTH
    /\ visited_urls # {} => /\ log[1] = Event("visit", config.BASE_URL, 0, {})
                            /\ VisitDepths(config.BASE_URL) = {0}
    /\ \A i \in EventsOf({"links"}) : log[i].n < config.MAX_RECURSION_DEPTH
    /\ \A k \in 2..Len(stack) :
          /\ stack[k - 1].depth < config.MAX_RECURSION_DEPTH
          /\ stack[k].depth = stack[k - 1].depth + 1

\* C3 witness: a finished run that visited a page at the maximum depth and
\* followed links from a page below it
VisitedAtMaxDepth ==
    /\ pc = "done"
    /\ config.MAX_RECURSION_DEPTH = 2
    /\ \E i \in EventsOf({"visit"}) : log[i].n = 2
    /\ \E i \in EventsOf({"links"}) : log[i].n = 1 /\ log[i].links # {}

\* C4: every URL within N <= max depth eligible links of the start URL is
\* visited at a depth of at most N.
DepthAtMostDistance ==
    pc = "done" =>
        \A n \in 0..config.MAX_RECURSION_DEPTH :
            \A u \in Within(n) :
                /\ u \in visited_urls
                /\ \A d \in VisitDepths(u) : d <= n

\* C5: every URL fetched other than the start URL is on the start URL's
\* network domain, contains an allow pattern and contains no deny pattern;
\* in the scenario (depth 1, start page linking to /help/a, /help/b, /login
\* and other.com/help/c) exactly /help/a and /help/b are visited at depth 1.
FetchedUrlsEligible ==
    /\ \A i \in EventsOf({"visit", "fetch_ok", "fetch_err"}) :
          log[i].url # config.BASE_URL =>
              /\ Netloc(log[i].url) = Netloc(config.BASE_URL)
              /\ \E p \in config.URL_INCLUDE_PATTERNS : IsSubstring(p, log[i].url)
              /\ \A p \in config.URL_EXCLUDE_PATTERNS : ~IsSubstring(p, log[i].url)
    /\ ( /\ pc = "done"
         /\ config.MAX_RECURSION_DEPTH = 1
         /\ config.BASE_URL = EXAMPLE_BASE_URL
         /\ config.BASE_URL \in FetchedOk
         /\ site[config.BASE_URL].hrefs = ScenarioHrefs )
       => /\ { log[i].url : i \in { j \in EventsOf({"visit"}) : log[j].n = 1 } }
                = {ExampleA, ExampleB}
          /\ visited_urls = {EXAMPLE_BASE_URL, ExampleA, ExampleB}

\* C5 witness: the scenario has run to its end: the start page carried the
\* four links and the two eligible ones were fetched
ScenarioFinished ==
    /\ pc = "done"
    /\ config.MAX_RECURSION_DEPTH = 1
    /\ config.BASE_URL = EXAMPLE_BASE_URL
    /\ config.BASE_URL \in FetchedOk
    /\ site[config.BASE_URL].hrefs = ScenarioHrefs
    /\ {ExampleA, ExampleB} \subseteq { log[i].url : i \in FetchEvents }

\* C6: every article in the list belongs to a visited URL whose fetch
\* succeeded (it is not in failed_urls) and has non-empty content; a fetched
\* page with empty extracted content has no article and is not in
\* failed_urls; no two articles have the same url.
ArticlesInvariant ==
    /\ \A i \in DOMAIN articles :
          /\ articles[i].url \in visited_urls
          /\ articles[i].url \in FetchedOk
          /\ articles[i].url \notin Range(failed_urls)
          /\ articles[i].content # <<>>
          /\ SumLen(articles[i].content) > 0
    /\ \A u \in FetchedOk :
          extract_article_content(Some(site[u]), u)[1].content = <<>> =>
              /\ \A i \in DOMAIN articles : articles[i].url # u
              /\ u \notin Range(failed_urls)
    /\ \A i, j \in DOMAIN articles : articles[i].url = articles[j].url => i = j

\* C6 witness: a finished run with an article, a fetched page whose content
\* was empty and a failed fetch
ArticleAndEmptyPage ==
    /\ pc = "done"
    /\ articles # <<>>
    /\ failed_urls # <<>>
    /\ \E u \in FetchedOk :
          extract_article_content(Some(site[u]), u)[1].content = <<>>

\* C7: the number of visited URLs is at least the number of articles plus
\* the number of failed URLs.
VisitedCoversArticlesAndFailures ==
    Cardinality(visited_urls) >= Len(articles) + Len(failed_urls)

\* C7 witness: articles and failures exist and a visited URL yielded neither
VisitedStrictlyMore ==
    /\ articles # <<>>
    /\ failed_urls # <<>>
    /\ Cardinality(visited_urls) > Len(articles) + Len(failed_urls)

\* the trace entries a step appends
NewEvents == { i \in DOMAIN log' : i > Len(log) }

\* a step in which a fetch raised
FetchFails == \E i \in NewEvents : log'[i].op = "fetch_err"

\* C8: a fetch that raises appends the URL to failed_urls, increments
\* failed_requests, yields no page (no article, no links) and does not abort
\* the run: articles, files and the earlier visited URLs are unchanged, the
\* callers' frames keep their remaining links, and at the end of the run
\* every link handed to a link loop has been visited.
FetchFailureIsLocal ==
    /\ [][ FetchFails =>
             /\ failed_urls' = Append(failed_urls, Top.url)
             /\ stats'.failed_requests = stats.failed_requests + 1
             /\ stats'.successful_requests = stats.successful_requests
             /\ stats'.total_requests = stats.total_requests + 1
             /\ articles' = articles
             /\ files' = files
             /\ visited_urls' = visited_urls \cup {Top.url}
             /\ pc' = "crawl"
             /\ stack' = Append(Pop(stack), Frame(Top.url, Top.depth, "loop", {}))
         ]_vars
    /\ [](pc = "done" =>
             \A i \in EventsOf({"links"}) : log[i].links \subseteq visited_urls)

\* C8 witness: a finished run in which a fetch failed after an article was
\* saved and a sibling of the failed URL was visited after the failure
SiblingVisitedAfterFailure ==
    /\ pc = "done"
    /\ \E l \in EventsOf({"links"}) : \E f \in EventsOf({"fetch_err"}) :
       \E v \in EventsOf({"fetch_ok"}) : \E a \in EventsOf({"save"}) :
          /\ a < f
          /\ l < f
          /\ f < v
          /\ log[f].url \in log[l].links
          /\ log[v].url \in log[l].links
          /\ log[v].url # log[f].url

\* C9: with checkpointing enabled and interval K, a checkpoint file is
\* written right after the N-th article is accepted exactly when N > 0 and N
\* is a multiple of K, and it holds exactly the first N articles; without
\* checkpointing none is written.
CheckpointEveryKth ==
    /\ \A n \in 1..Len(articles) :
          LET due == config.CHECKPOINT_ENABLED /\ n % config.CHECKPOINT_INTERVAL = 0
              at  == { i \in EventsOf({"checkpoint"}) : log[i].n = n }
          IN  /\ due <=> at # {}
              /\ Cardinality(at) <= 1
              /\ \A i \in at : i > 1 /\ log[i - 1].op = "save" /\ log[i - 1].n = n
              /\ due <=> CheckpointName(n) \in DOMAIN files
              /\ due => /\ files[CheckpointName(n)] = SubSeq(articles, 1, n)
                        /\ Len(files[CheckpointName(n)]) = n
    /\ \A i \in EventsOf({"checkpoint"}) : log[i].n \in 1..Len(articles)
    /\ \A name \in DOMAIN files :
          name[1] = "checkpoint_" =>
              \E n \in 1..Len(articles) : name = CheckpointName(n)

\* C9 witness: interval 2 and three accepted articles: a checkpoint after
\* the second, none after the first or the third
CheckpointAfterSecondOnly ==
    /\ config.CHECKPOINT_ENABLED
    /\ config.CHECKPOINT_INTERVAL = 2
    /\ Len(articles) = 3
    /\ { log[i].n : i \in EventsOf({"checkpoint"}) } = {2}

\* urls of the articles in the order they were saved
RECURSIVE SavedUrls(_)
SavedUrls(k) ==
    IF k = 0 THEN <<>>
    ELSE IF log[k].op = "save" THEN Append(SavedUrls(k - 1), log[k].url)
    ELSE SavedUrls(k - 1)

\* C10: when run() has completed, all_articles.json has been written exactly
\* once, after the traversal, and holds every accepted article in acceptance
\* order and nothing else; before that it has not been written.
FinalFileWritten ==
    /\ pc = "done" =>
          /\ stack = <<>>
          /\ FinalName \in DOMAIN files
          /\ files[FinalName] = articles
          /\ [i \in 1..Len(files[FinalName]) |-> files[FinalName][i].url]
                = SavedUrls(Len(log))
          /\ EventsOf({"final"}) = {Len(log)}
    /\ pc # "done" =>
          /\ EventsOf({"final"}) = {}
          /\ FinalName \notin DOMAIN files

\* C10 witness: a completed run with a failed fetch and two articles
FinishedWithFailureAndArticles ==
    /\ pc = "done"
    /\ failed_urls # <<>>
    /\ Len(articles) >= 2

\* C10, second case: a completed run that accepted no article
FinishedWithoutArticles ==
    /\ pc = "done"
    /\ articles = <<>>
    /\ files[FinalName] = <<>>

----------------------------------------------------------------------------
(* Claims about extract_article_content, under SpecExtract *)

\* the string of a text: '' for the empty text
Str(text) == IF text = "" THEN <<>> ELSE <<text>>

RECURSIVE TextsInOrder(_)
\* the texts of the p/li/h2/h3/h4 elements of a sibling list whose lists
\* hold li elements only, in document order
TextsInOrder(siblings) ==
    IF siblings = <<>> THEN <<>>
    ELSE LET e == Head(siblings)
         IN  (IF e.tag \in {"p", "h2", "h3", "h4"} THEN << Str(e.text) >>
              ELSE IF e.tag \in {"ul", "ol"}
                   THEN [i \in DOMAIN e.kids |-> Str(e.kids[i].text)]
                   ELSE <<>>)
               \o TextsInOrder(Tail(siblings))

\* the page given to the call has a container matching one of the selectors
HasContainer ==
    input.layout \in {"body_container", "bare_container", "body_two_containers"}

\* the page given to the call has a body element
HasBody ==
    input.layout \in {"body", "body_container", "body_other_div",
                      "body_two_containers"}

\* C15: the content of an accepted article is non-empty and is the
\* "\n\n"-join, in document order, of the trimmed texts of the p/li/h2/h3/h4
\* elements of the chosen container that are strictly longer than the
\* minimum length; a text as long as the minimum is left out, and texts of
\* lengths 5, 20 and 30 under the minimum 10 give the two longer ones.
ContentIsJoinOfLongTexts ==
    (pc = "extracted" /\ IsAccepted(result)) =>
        LET texts == TextsInOrder(input.siblings)
            long  == SelectSeq(texts,
                               LAMBDA t : SumLen(t) > config.MIN_PARAGRAPH_LENGTH)
        IN  /\ result[1].content # <<>>
            /\ result[1].content = Join("\n\n", long)
            /\ \A i \in DOMAIN texts :
                  SumLen(texts[i]) = config.MIN_PARAGRAPH_LENGTH =>
                      \A j \in DOMAIN result[1].content :
                          result[1].content[j] # texts[i][1]
            /\ texts = << <<"t5">>, <<"t20">>, <<"t30">> >> =>
                  result[1].content = <<"t20", "\n\n", "t30">>

\* C15 witness: an article was accepted from a container holding a text
\* shorter than the minimum, one as long as it and two longer ones
AcceptedWithThresholdText ==
    /\ pc = "extracted"
    /\ IsAccepted(result)
    /\ HasContainer
    /\ TextsInOrder(input.siblings) = << <<"t10">>, <<"t5">>, <<"t20">> >>
    /\ result[1].content = <<"t20">>

\* C19 as stated: the call returns None when the page has neither a
\* container matching a selector nor a body.
NoneWithoutContainerAndBody ==
    (pc = "extracted" /\ input.soup # None /\ ~HasContainer /\ ~HasBody) =>
        result = None

\* C19, amended: the call returns None exactly when it was given no page; for
\* a page with neither a matching container nor a body it returns an article
\* with the page's url and title, empty content and no sections, which
\* parse_page does not accept.
NoneOnlyWithoutPage ==
    pc = "extracted" =>
        /\ result = None <=> input.soup = None
        /\ (input.soup # None /\ ~HasContainer /\ ~HasBody) =>
              /\ result[1] = [ url |-> input.url, title |-> input.soup[1].title,
                               content |-> <<>>, sections |-> <<>> ]
              /\ ~IsAccepted(result)

\* C19 witness: the call returned for a page without container and body
\* that carries a long paragraph
ExtractedWithoutContainerAndBody ==
    /\ pc = "extracted"
    /\ input.soup # None
    /\ ~HasContainer /\ ~HasBody
    /\ input.siblings = << Leaf("p", "t30") >>
    /\ result # None

\* the first position after i in the sibling list holding an h2 or h3, or
\* one past the end
NextHeading(siblings, i) ==
    IF \E j \in (i + 1)..Len(siblings) : siblings[j].tag \in {"h2", "h3"}
    THEN CHOOSE j \in (i + 1)..Len(siblings) :
            /\ siblings[j].tag \in {"h2", "h3"}
            /\ \A k \in (i + 1)..(j - 1) : siblings[k].tag \notin {"h2", "h3"}
    ELSE Len(siblings) + 1

\* the non-empty texts of the p/ul/ol elements at the positions from..to
CollectedBetween(siblings, from, to) ==
    LET at    == [k \in 1..(to - from + 1) |-> siblings[from + k - 1]]
        lists == SelectSeq(at, LAMBDA e : e.tag \in {"p", "ul", "ol"}
                                          /\ TextOf(<<e>>) # <<>>)
    IN  [k \in DOMAIN lists |-> TextOf(<<lists[k]>>)]

\* C20 as stated: the section of an h2 heading goes on past a following h3
\* sibling: a non-empty p/ul/ol text after that h3 and before the next h2 is
\* in the h2's section.
H2SectionContinuesPastH3 ==
    (pc = "extracted" /\ result # None /\ (HasContainer \/ HasBody)) =>
        \A i, j, k \in DOMAIN input.siblings :
            ( /\ i < j /\ j < k
              /\ input.siblings[i].tag = "h2"
              /\ input.siblings[j].tag = "h3"
              /\ input.siblings[k].tag \in {"p", "ul", "ol"}
              /\ TextOf(<<input.siblings[k]>>) # <<>>
              /\ \A m \in (i + 1)..k : input.siblings[m].tag # "h2" )
            => \E s \in DOMAIN result[1].sections :
                  /\ result[1].sections[s].heading = TextOf(<<input.siblings[i]>>)
                  /\ \E c \in DOMAIN result[1].sections[s].content :
                        result[1].sections[s].content[c]
                            = TextOf(<<input.siblings[k]>>)

\* C20, amended: the sections are, in document order, one entry per h2/h3
\* heading that collected something; an entry holds the non-empty texts of
\* the p/ul/ol siblings after its heading up to the next h2 or h3 sibling,
\* whatever the level of the heading, so an h2's section ends at a following
\* h3; a heading that collected nothing has no entry.
SectionsStopAtNextHeading ==
    (pc = "extracted" /\ result # None /\ (HasContainer \/ HasBody)) =>
        LET sibs     == input.siblings
            entry(i) == [ heading |-> TextOf(<<sibs[i]>>),
                          content |-> CollectedBetween(sibs, i + 1,
                                                       NextHeading(sibs, i) - 1) ]
            all      == [i \in DOMAIN sibs |-> entry(i)]
            headed   == SelectSeq([i \in DOMAIN sibs |-> i],
                                  LAMBDA i : sibs[i].tag \in {"h2", "h3"}
                                             /\ all[i].content # <<>>)
        IN  result[1].sections = [n \in DOMAIN headed |-> all[headed[n]]]

\* C20 witness: the call returned for a container holding an h2, an h3 and
\* a paragraph in this order; only the h3 has a section
ExtractedH2H3Paragraph ==
    /\ pc = "extracted"
    /\ HasContainer
    /\ input.siblings = << Leaf("h2", "t11"), Leaf("h3", "t20"), Leaf("p", "t5") >>
    /\ result[1].sections = << [heading |-> <<"t20">>, content |-> << <<"t5">> >>] >>

----------------------------------------------------------------------------
(* Claims about the order of the crawl's effects, under Spec *)

\* the number of per-article files written up to position k of the trace
SavesUpTo(k) == Cardinality({ i \in EventsOf({"save"}) : i <= k })

\* C11: each accepted article is written to a file of its own as soon as it
\* is accepted, directly after its page was fetched and before the links of
\* that page are extracted or fetched; the index in the file name is the
\* article's 1-based position in the articles list, so the indices used so
\* far are exactly 1..n for n accepted articles.
ArticleFilesWritten ==
    /\ Cardinality(EventsOf({"save"})) = Len(articles)
    /\ { log[k].n : k \in EventsOf({"save"}) } = 1..Len(articles)
    /\ \A k \in EventsOf({"save"}) :
          /\ log[k].n = SavesUpTo(k)
          /\ log[k].url = articles[log[k].n].url
          /\ k > 1 /\ log[k - 1].op = "fetch_ok" /\ log[k - 1].url = log[k].url
          /\ \A l \in EventsOf({"links", "fetch_ok", "fetch_err"}) :
                (l # k - 1 /\ log[l].url = log[k].url) => l > k
          /\ \A j \in FetchEvents :
                (\E l \in EventsOf({"links"}) :
                    log[l].url = log[k].url /\ log[j].url \in log[l].links /\ l < j)
                => j > k
    /\ \A i \in DOMAIN articles :
          LET name == Pad3(i) \o <<"_">> \o sanitize_filename(articles[i].title)
                        \o <<".json">>
          IN  /\ name \in DOMAIN files
              /\ files[name] = articles[i]
    /\ Cardinality({ name \in DOMAIN files : name[1] \in {"0", "1", "2", "3", "4",
                                                          "5", "6", "7", "8", "9"} })
          = Len(articles)

\* C11 witness: a finished run that accepted two articles, the first from a
\* page whose links were followed afterwards
TwoArticlesFirstWithLinks ==
    /\ pc = "done"
    /\ Len(articles) = 2
    /\ \E l \in EventsOf({"links"}), j \in FetchEvents :
          /\ log[l].url = articles[1].url
          /\ log[j].url \in log[l].links
          /\ l < j

\* C16: the delay precedes every fetch except the first one of the run,
\* which is the start page's: before each fetch there have been as many
\* sleeps as earlier fetches, so exactly one sleep lies between two
\* consecutive fetches, and it directly precedes the later one.
SleepBeforeEveryFetchButFirst ==
    \A j \in FetchEvents :
        LET earlier == { f \in FetchEvents : f < j }
            sleeps  == { s \in EventsOf({"sleep"}) : s < j }
        IN  /\ Cardinality(sleeps) = Cardinality(earlier)
            /\ earlier = {} => log[j].url = config.BASE_URL
            /\ earlier # {} =>
                  /\ log[j - 1].op = "sleep"
                  /\ log[j - 1].url = log[j].url
                  /\ \A s \in sleeps : s # j - 1 => \E f \in earlier : s < f

\* C16 witness: a finished run with three fetches, the second one failed
ThreeFetchesOneFailed ==
    /\ pc = "done"
    /\ Cardinality(FetchEvents) = 3
    /\ \E i, j, k \in FetchEvents :
          i < j /\ j < k /\ log[j].op = "fetch_err"

\* the position of the visit of a URL in the trace
VisitOf(url) == CHOOSE i \in EventsOf({"visit"}) : log[i].url = url

RECURSIVE IsUnder(_, _)
\* the visit at position i belongs to the subtree of the visit at position c:
\* it is that visit or was called from a page of that subtree
IsUnder(i, c) ==
    IF i = c THEN TRUE
    ELSE IF log[i].links = {} THEN FALSE
    ELSE \E p \in log[i].links : IsUnder(VisitOf(p), c)

\* C17: the traversal is depth-first with parents first: a page other than
\* the start page is visited after the page that linked to it was fetched
\* and its links were extracted, one level below it; and the pages visited
\* between two links of one page are exactly the subtree of the earlier
\* link, so that subtree is complete before the next link is fetched.
DepthFirstParentsFirst ==
    LET V == EventsOf({"visit"})
    IN  /\ \A j \in V :
              IF log[j].links = {}
              THEN j = 1 /\ log[j].n = 0 /\ log[j].url = config.BASE_URL
              ELSE \A p \in log[j].links :
                      \E i \in V, f \in EventsOf({"fetch_ok"}), l \in EventsOf({"links"}) :
                          /\ log[i].url = p /\ log[f].url = p /\ log[l].url = p
                          /\ i < f /\ f < l /\ l < j
                          /\ log[j].url \in log[l].links
                          /\ log[j].n = log[i].n + 1
        /\ \A c1, c2 \in V :
              (c1 < c2 /\ log[c1].links # {} /\ log[c1].links = log[c2].links) =>
                  \A i \in V :
                      /\ (c1 < i /\ i < c2) => IsUnder(i, c1)
                      /\ IsUnder(i, c1) => i < c2

\* C17 witness: a finished run in which the start page had two links and a
\* page below the first link was visited before the second link
SubtreeBeforeSibling ==
    /\ pc = "done"
    /\ \E c1, i, c2 \in EventsOf({"visit"}) :
          /\ c1 < i /\ i < c2
          /\ log[c1].links = {config.BASE_URL}
          /\ log[c2].links = {config.BASE_URL}
          /\ log[i].links = {log[c1].url}

\* C18: for every site of the pool (with cycles and self-links), every
\* maximum depth and every pattern of fetch failures the crawl terminates:
\* parse_page on the start URL returns, and the final file is then written.
CrawlTerminates ==
    <>(pc = "done" /\ stack = <<>> /\ FinalName \in DOMAIN files)

\* C18 witness: a run has finished at the largest depth on a site where
\* two pages link to each other and one of them to itself, with a failed
\* fetch
FinishedOnCyclicSite ==
    /\ pc = "done"
    /\ config.MAX_RECURSION_DEPTH = MaxDepth
    /\ failed_urls # <<>>
    /\ \E u, v \in DOMAIN site :
          /\ u # v
          /\ v \in site[u].hrefs
          /\ u \in site[v].hrefs
          /\ u \in site[u].hrefs

----------------------------------------------------------------------------
(* Claims about the cleanup, under SpecClean *)

\* the per-article files of a directory: the .json files that are neither
\* checkpoints nor the final file
PerArticle(fs) == { name \in GlobJson(fs) : ~IsSpecial(name) }

\* the per-article files of a directory that parse as JSON and carry the url
Carrying(fs, url) ==
    { name \in PerArticle(fs) :
         /\ json_load(fs[name]) # None
         /\ UrlOf(json_load(fs[name])[1]) = url }

\* the name starts with three digits and an underscore
HasIndexPrefix(name) ==
    /\ Len(name) > 4
    /\ {name[1], name[2], name[3]} \subseteq DigitChars
    /\ name[4] = "_"

\* a directory as a crawl leaves it: every per-article file is named
\* NNN_<slug>.json with a slug that does not itself start like an index
\* prefix, and holds an article with a url
AsCrawled(fs) ==
    \A name \in PerArticle(fs) :
        /\ HasIndexPrefix(name)
        /\ ~HasIndexPrefix(StripNumber(name))
        /\ json_load(fs[name]) # None
        /\ UrlOf(json_load(fs[name])[1]) # <<>>

\* C12: after run() on a directory as a crawl leaves it, every url carried
\* by a per-article file before the cleanup is carried by exactly one
\* per-article file, and that file has no index prefix; also when two
\* articles with different urls had the same slug.
EveryUrlKeptOnceUnprefixed ==
    (cleaner.step = "finished" /\ cleaner.runs = 1 /\ AsCrawled(cleaner.before)) =>
        \A url \in { UrlA, UrlB } :
            Carrying(cleaner.before, url) # {} =>
                /\ Cardinality(Carrying(files, url)) = 1
                /\ \A name \in Carrying(files, url) : ~HasIndexPrefix(name)

\* C13: a second run() leaves the directory as the first run left it, names
\* and contents, whatever the directory held at the start.
CleanupIdempotent ==
    cleaner.runs >= 1 => files = cleaner.after_first

\* C13 witness: the second run has finished on a directory that at the
\* start held a checkpoint and two numbered files with the same url, and
\* that the first run changed
SecondRunFinished ==
    /\ cleaner.step = "finished"
    /\ cleaner.runs = 2
    /\ GlobCheckpoints(cleaner.before) # {}
    /\ \E m, n \in Carrying(cleaner.before, UrlA) :
          m # n /\ HasIndexPrefix(m) /\ HasIndexPrefix(n)
    /\ files # cleaner.before
    /\ files # EmptyDir

\* C14: after run() the directory holds no checkpoint_*.json file and no
\* per-article file whose name starts with three digits and an underscore,
\* and no two per-article files that parse as JSON with a non-empty url
\* carry the same url.
NoCheckpointNumberedOrDuplicate ==
    (cleaner.step = "finished" /\ cleaner.runs >= 1) =>
        /\ \A name \in DOMAIN files :
              ~(name[1] = "checkpoint_" /\ name[Len(name)] = ".json")
        /\ \A name \in PerArticle(files) : ~HasIndexPrefix(name)
        /\ \A url \in { UrlA, UrlB } : Cardinality(Carrying(files, url)) <= 1

\* C14 witness: run() has finished on a directory that held a checkpoint
\* and a numbered file and an unprefixed file with the same url
CleanedMixedDirectory ==
    /\ cleaner.step = "finished"
    /\ cleaner.runs = 1
    /\ GlobCheckpoints(cleaner.before) # {}
    /\ \E m, n \in Carrying(cleaner.before, UrlA) :
          HasIndexPrefix(m) /\ ~HasIndexPrefix(n)
    /\ Cardinality(Carrying(files, UrlA)) = 1

----------------------------------------------------------------------------
(* Claims about failures in the cleanup                                    *)

\* the per-article files of a directory that do not parse as JSON
Unreadable(fs) == { name \in PerArticle(fs) : json_load(fs[name]) = None }

\* the file an iteration of a cleaner loop has just taken, as a set
JustTaken == cleaner.pending \ cleaner'.pending

\* C21: in remove_duplicates, the iteration on a file that does not parse as
\* JSON adds that file's name, and no other, to the reported errors, leaves
\* the directory, files_by_url and the counters as they were and leaves the
\* other files still to be processed; no iteration on a readable file
\* reports anything; and when the loop ends, every unreadable file is still
\* there and every url carried by a readable per-article file before is
\* carried by exactly one, as if the unreadable files were not there
UnreadableFileSkipped ==
    [][ cleaner.step = "remove_duplicates" =>
          /\ cleaner'.step = "remove_duplicates" =>
               \A f \in JustTaken :
                  IF f \in Unreadable(files)
                  THEN /\ cleaner'.reported = cleaner.reported \cup {f}
                       /\ cleaner'.pending = cleaner.pending \ {f}
                       /\ files' = files
                       /\ cleaner'.files_by_url = cleaner.files_by_url
                       /\ cleaner'.stats = cleaner.stats
                  ELSE cleaner'.reported = cleaner.reported
          /\ (cleaner'.step = "remove_numbering" /\ cleaner.runs = 0) =>
               /\ cleaner.reported = Unreadable(cleaner.before)
               /\ \A f \in Unreadable(cleaner.before) :
                     f \in DOMAIN files /\ files[f] = cleaner.before[f]
               /\ \A url \in {UrlA, UrlB} :
                     Carrying(cleaner.before, url) # {} =>
                        Cardinality(Carrying(files, url)) = 1
      ]_vars

\* remove_duplicates has gone through a directory with an unreadable file
\* and two files of one url: the error was reported and the duplicate removed
ReportedAndDeduplicated ==
    /\ cleaner.step = "remove_duplicates"
    /\ cleaner.pending = {}
    /\ cleaner.runs = 0
    /\ cleaner.reported # {}
    /\ cleaner.stats.duplicates_removed = 1
    /\ Cardinality(Carrying(cleaner.before, UrlA)) = 2

----------------------------------------------------------------------------
(* Claims about the choice of the main content, under SpecSelectors        *)

\* the place of an element in the order class article-content, class
\* content, role main, class text-content; 5 when it has none of them
SelectorRank(e) ==
    IF e.class = "article-content" THEN 1
    ELSE IF e.class = "content" THEN 2
    ELSE IF e.role = "main" THEN 3
    ELSE IF e.class = "text-content" THEN 4
    ELSE 5

\* the "\n\n"-join of the texts of a sibling list longer than the minimum
LongJoin(siblings) ==
    Join("\n\n", SelectSeq(TextsInOrder(siblings),
                           LAMBDA t : SumLen(t) > config.MIN_PARAGRAPH_LENGTH))

\* the two containers in the body of the page given to the call
ContainersOfInput == input.soup[1].nodes[1].kids

\* C22: on a page whose body holds two containers, the content comes from
\* the one whose selector is earlier in the order class article-content,
\* class content, role main, class text-content, wherever it stands in the
\* document and whether it is a div or a main element; the whole body gives
\* the content only when neither container matches any of the four.
EarlierRankedContainerWins ==
    pc = "extracted" =>
        LET a  == ContainersOfInput[1]
            b  == ContainersOfInput[2]
            ra == SelectorRank(a)
            rb == SelectorRank(b)
        IN  /\ ra < rb => result[1].content = LongJoin(a.kids)
            /\ rb < ra => result[1].content = LongJoin(b.kids)
            /\ (ra < 5 \/ rb < 5) =>
                  result[1].content \in {LongJoin(a.kids), LongJoin(b.kids)}
            /\ (ra = 5 /\ rb = 5) =>
                  result[1].content = LongJoin(a.kids \o b.kids)

\* C22 witness: a text-content div stands before an article-content main
\* element, and the content is the main element's
LaterArticleContentChosen ==
    /\ pc = "extracted"
    /\ ContainersOfInput[1].tag = "div"
    /\ ContainersOfInput[1].class = "text-content"
    /\ ContainersOfInput[1].kids = << Leaf("p", "t20") >>
    /\ ContainersOfInput[2].tag = "main"
    /\ ContainersOfInput[2].class = "article-content"
    /\ result[1].content = <<"t30">>

----------------------------------------------------------------------------
(* Claims about file names, under SpecFilename                             *)

\* the slug of each title: punctuation removed, runs of spaces and dashes
\* turned into one underscore, underscores at the ends removed, lower case
SlugOfTitle(title) ==
    CASE title = <<"Title">> -> <<"title">>
      [] title = <<"Title", ":", " ", "how", " ", "-", " ", "it", "!">> ->
            <<"title", "_", "how", "_", "it">>
      [] title = <<"_", "Title", "_">> -> <<"title">>
      [] OTHER -> <<>>

\* the slug of the last non-empty segment of the path of each url
SlugOfUrl(url) ==
    CASE url = TBANK_BASE_URL -> <<"how", "_", "it", "_", "works">>
      [] url = HelpUrl("a") -> <<"a">>
      [] OTHER -> <<>>

\* the index zero-padded to three digits
ThreeDigits(index) ==
    << Digit(index \div 100), Digit((index \div 10) % 10), Digit(index % 10) >>

\* C23: the name generate_filename returns is the index zero-padded to three
\* digits, "_", a base name and ".json", the base name being the slug of the
\* title when that is non-empty, else the slug of the last non-empty path
\* segment of the url when that is non-empty, else "article".
FilenameFromTitleUrlOrGeneric ==
    pc = "named" =>
        LET title == SlugOfTitle(input.article.title)
            url   == SlugOfUrl(input.article.url)
            base  == IF title # <<>> THEN title
                     ELSE IF url # <<>> THEN url
                     ELSE <<"article">>
        IN  result[1] = ThreeDigits(input.index) \o <<"_">> \o base \o <<".json">>

\* C23 witness: an article whose title is punctuation only was named from
\* its url with a two-digit index
NamedFromUrlSegment ==
    /\ pc = "named"
    /\ input.article.title = <<"!", "?">>
    /\ input.article.url = TBANK_BASE_URL
    /\ input.index = 12
    /\ result[1] = <<"0", "1", "2", "_", "how", "_", "it", "_", "works", ".json">>

----------------------------------------------------------------------------
(* Claims about the files and counters of a crawl, under Spec              *)

\* the checkpoint files of the directory, by their article count
CheckpointCounts == { n \in 1..Len(articles) : CheckpointName(n) \in DOMAIN files }

\* C24: every checkpoint file in the directory is named by a count n and
\* holds the first n accepted articles in acceptance order; so a checkpoint
\* is a prefix of every later checkpoint, and of all_articles.json once the
\* run has written it.
CheckpointsArePrefixes ==
    /\ \A name \in DOMAIN files :
          StartsWith(name, <<"checkpoint_">>) =>
              \E n \in CheckpointCounts : name = CheckpointName(n)
    /\ \A n \in CheckpointCounts :
          files[CheckpointName(n)] = SubSeq(articles, 1, n)
    /\ \A m, n \in CheckpointCounts :
          m <= n => files[CheckpointName(m)] = SubSeq(files[CheckpointName(n)], 1, m)
    /\ pc = "done" =>
          \A n \in CheckpointCounts :
              files[CheckpointName(n)] = SubSeq(files[FinalName], 1, n)

\* C24 witness: a finished run left two checkpoints and a final file with
\* more articles than the first checkpoint
TwoCheckpointsAndFinal ==
    /\ pc = "done"
    /\ Cardinality(CheckpointCounts) >= 2
    /\ \E n \in CheckpointCounts : n < Len(files[FinalName])
    /\ \E n \in CheckpointCounts : n >= 2

ArticleFilesNeverOverwritten ==
    [][ /\ \A name \in PerArticle(files) :
              name \in DOMAIN files' /\ files'[name] = files[name]
        /\ Cardinality(PerArticle(files')) = Len(articles')
        /\ \A i \in DOMAIN articles' :
              \E name \in PerArticle(files') : files'[name] = articles'[i]
      ]_vars

\* C26 witness: three articles with the same title were accepted and three
\* per-article files are in the directory
ThreeFilesSameTitle ==
    /\ Len(articles) = 3
    /\ \A i \in DOMAIN articles : articles[i].title = articles[1].title
    /\ Cardinality(PerArticle(files)) = 3

\* the URLs marked visited before position i of the trace
VisitedBefore(i) == { log[j].url : j \in { k \in EventsOf({"visit"}) : k < i } }

\* the eligible links of the page the site served at a URL, none when the
\* URL served no page
ServedLinks(url) ==
    IF url \in DOMAIN site
    THEN { v \in { UrlJoin(url, h) : h \in site[url].hrefs } : Eligible(v) }
    ELSE {}

\* the URLs of the accepted articles
ArticleUrls == { articles[i].url : i \in DOMAIN articles }

\* C27: the trace of a finished run shows that the links extracted from a
\* page below max depth were the eligible, not yet visited links of the page
\* when its fetch succeeded, whether or not its article was accepted, and
\* none when its fetch failed; that every page fetched below max depth had
\* its links extracted; that parse_page was only ever called from the link
\* loop of a successfully fetched page carrying the link; and that every
\* extracted link was visited.
LinksFromFetchedPagesOnly ==
    pc = "done" =>
        /\ \A i \in EventsOf({"links"}) :
              IF log[i].url \in DOMAIN site
              THEN log[i].links = ServedLinks(log[i].url) \ VisitedBefore(i)
              ELSE log[i].links = {}
        /\ \A i \in FetchEvents :
              log[i].n < config.MAX_RECURSION_DEPTH =>
                  \E j \in EventsOf({"links"}) : j > i /\ log[j].url = log[i].url
        /\ \A i \in EventsOf({"visit"}) :
              \A caller \in log[i].links :
                  caller \in DOMAIN site /\ log[i].url \in ServedLinks(caller)
        /\ \A i \in EventsOf({"links"}) : log[i].links \subseteq visited_urls
        /\ DOMAIN site = FetchedOk

\* C27 witness: a finished run visited a URL from the link loop of a page
\* whose article was discarded, and another page's fetch failed
FollowedFromDiscardedPage ==
    /\ pc = "done"
    /\ failed_urls # <<>>
    /\ \E i \in EventsOf({"visit"}) :
          \E caller \in log[i].links :
              caller \in FetchedOk /\ caller \notin ArticleUrls

----------------------------------------------------------------------------
(* Claims about what the cleanup leaves alone                              *)

\* the names in the directory before or after a step
NamesAround == DOMAIN files \cup DOMAIN files'

\* C28: no step of DirectoryCleaner.run() deletes, creates or changes a file
\* whose name starts with "all_", and no step changes the content of a file
\* that exists before and after it; an unprefixed file that exists when the
\* stripped name of an index-prefixed file is needed keeps its content.
CleanerLeavesAggregatesAlone ==
    [][ \A name \in NamesAround :
          /\ StartsWith(name, <<"all_">>) =>
                /\ name \in DOMAIN files
                /\ name \in DOMAIN files'
                /\ files'[name] = files[name]
          /\ (name \in DOMAIN files /\ name \in DOMAIN files') =>
                files'[name] = files[name]
      ]_vars

----------------------------------------------------------------------------
(* The company list: RussianCompaniesParser._deduplicate_companies          *)

\* `if symbol` on company.get('symbol'): the key is there and its value is
\* not the empty string
HasSymbol(company) == "symbol" \in DOMAIN company /\ company.symbol # ""

RECURSIVE DeduplicateLoopKeepingLast(_, _, _)
\* the loop replacing the company kept for a symbol by a later one
DeduplicateLoopKeepingLast(companies, seen, unique_companies) ==
    IF companies = <<>> THEN unique_companies
    ELSE LET company == Head(companies)
         IN  IF ~HasSymbol(company)
             THEN DeduplicateLoopKeepingLast(Tail(companies), seen, unique_companies)
             ELSE IF company.symbol \in seen
             THEN DeduplicateLoopKeepingLast(
                      Tail(companies), seen,
                      [ i \in DOMAIN unique_companies |->
                          IF unique_companies[i].symbol = company.symbol
                          THEN company ELSE unique_companies[i] ])
             ELSE DeduplicateLoopKeepingLast(Tail(companies),
                                             seen \cup {company.symbol},
                                             Append(unique_companies, company))

RECURSIVE DeduplicateLoop(_, _, _)
\* `for company in companies`: a company with a symbol not seen before is
\* appended and its symbol remembered
DeduplicateLoop(companies, seen, unique_companies) ==
    IF companies = <<>> THEN unique_companies
    ELSE LET company == Head(companies)
         IN  IF HasSymbol(company) /\ company.symbol \notin seen
             THEN DeduplicateLoop(Tail(companies), seen \cup {company.symbol},
                                  Append(unique_companies, company))
             ELSE DeduplicateLoop(Tail(companies), seen, unique_companies)

\* _deduplicate_companies(companies)
deduplicate_companies(companies) == DeduplicateLoop(companies, {}, <<>>)

\* a row of a section's table as _parse_companies_table returns it
Company(name, symbol, section) ==
    [ company_name |-> name, symbol |-> symbol, section |-> section ]

\* the companies of the bounded lists: one symbol listed in two sections
\* under two names, a second symbol, a row without link (symbol ''), and a
\* record without the key
Companies ==
    { Company("Sberbank", "sberbank", "russia"),
      Company("Sberbank PJSC", "sberbank", "moscow-exchange"),
      Company("Gazprom", "gazprom", "russia"),
      Company("Unlinked", "", "russia"),
      [ company_name |-> "Unkeyed", section |-> "russia" ] }

\* the lists of at most MaxCompanies companies
CompanyLists == UNION { [1..k -> Companies] : k \in 0..MaxCompanies }

InitDeduplicate ==
    /\ config = ParserConfig(0, TRUE, 1)
    /\ site = [u \in {} |-> <<>>]
    /\ pool = [ hrefs |-> {}, titles |-> {<<"Title">>}, bodies |-> Bodies ]
    /\ pc = "deduplicate"
    /\ stack = <<>>
    /\ visited_urls = {}
    /\ articles = <<>>
    /\ failed_urls = <<>>
    /\ stats = InitStats
    /\ cleaner = None
    /\ input \in CompanyLists
    /\ result = None
    /\ files = EmptyDir
    /\ log = <<>>

\* the call self._deduplicate_companies(companies) and its return
Deduplicate ==
    /\ pc = "deduplicate"
    /\ result' = Some(deduplicate_companies(input))
    /\ pc' = "deduplicated"
    /\ UNCHANGED <<config, site, pool, stack, visited_urls, articles,
                   failed_urls, stats, cleaner, input, files, log>>

NextDeduplicate == Deduplicate

SpecDeduplicate == InitDeduplicate /\ [][NextDeduplicate]_vars

\* the positions of a list holding the first company of their symbol
FirstOccurrences(companies) ==
    { i \in DOMAIN companies :
         /\ HasSymbol(companies[i])
         /\ \A j \in 1..(i - 1) :
               HasSymbol(companies[j]) => companies[j].symbol # companies[i].symbol }

RECURSIVE AtPositions(_, _, _)
\* the sub-list of the companies at the given positions, from position i on
AtPositions(companies, positions, i) ==
    IF i > Len(companies) THEN <<>>
    ELSE (IF i \in positions THEN <<companies[i]>> ELSE <<>>)
           \o AtPositions(companies, positions, i + 1)

\* C29: the list _deduplicate_companies returns is the sub-list of the first
\* occurrence of each non-empty symbol, in input order: no two returned
\* companies share a symbol, every non-empty symbol of the input appears
\* exactly once, no returned company has an empty or missing symbol, and
\* applying the function to the returned list gives the returned list.
FirstOccurrencePerSymbol ==
    pc = "deduplicated" =>
        LET unique == result[1]
        IN  /\ unique = AtPositions(input, FirstOccurrences(input), 1)
            /\ \A i, j \in DOMAIN unique :
                  unique[i].symbol = unique[j].symbol => i = j
            /\ \A i \in DOMAIN input :
                  HasSymbol(input[i]) =>
                      Cardinality({ k \in DOMAIN unique :
                                      unique[k].symbol = input[i].symbol }) = 1
            /\ \A k \in DOMAIN unique : HasSymbol(unique[k])
            /\ deduplicate_companies(unique) = unique

\* C29 witness: a list with a row without symbol, then the same symbol
\* under two names, then a second symbol, was reduced to the first name and
\* the second symbol
DeduplicatedTwoNames ==
    /\ pc = "deduplicated"
    /\ input = << Company("Unlinked", "", "russia"),
                  Company("Sberbank PJSC", "sberbank", "moscow-exchange"),
                  Company("Sberbank", "sberbank", "russia"),
                  Company("Gazprom", "gazprom", "russia") >>
    /\ result[1] = << Company("Sberbank PJSC", "sberbank", "moscow-exchange"),
                      Company("Gazprom", "gazprom", "russia") >>

----------------------------------------------------------------------------
(* The document parser: FileParser.parse_all_files                         *)

\* self.supported_files of FileParser.__init__; a name is its stem and its
\* extension
supported_files ==
    << <<"Antti_Ilmanen_Expected_Returns_A", ".pdf">>,
       <<"Hoi,_Steven_C_H___Li,_Bin_Online", ".pdf">>,
       <<"Hull_J_C_-Options_Futures_and_Other_Derivatives_9th_edition", ".pdf">>,
       <<"MOEX_bonds", ".pdf">>,
       <<"MOEX_futures_options", ".pdf">>,
       <<"MOEX_indexes", ".docx">>,
       <<"Richard Grinold Active_Portfolio_Management_A_quantitative_approach_for_providing",
         ".pdf">> >>

\* str.endswith(ext)
EndsWith(file_name, ext) == file_name # <<>> /\ file_name[Len(file_name)] = ext

\* what a file may hold: a PDF document, a DOCX document, or bytes that are
\* neither
PdfDocument == [ format |-> "pdf", pages |-> <<"text">> ]

DocxDocument == [ format |-> "docx", paragraphs |-> <<"text">>, tables |-> <<>> ]

FileContents == { PdfDocument, DocxDocument, Garbage }

\* the metadata dictionary of a parsed document
Metadata == [ title |-> "", author |-> "", subject |-> "" ]

\* parse_pdf(file_path): the record of the document, or the record with
\* 'error' when PyPDF2 or open() raises
parse_pdf(fs, file_path) ==
    IF "format" \in DOMAIN fs[file_path] /\ fs[file_path].format = "pdf"
    THEN [ file_name  |-> file_path,
           file_type  |-> "PDF",
           metadata   |-> Metadata,
           page_count |-> Len(fs[file_path].pages),
           content    |-> [ i \in DOMAIN fs[file_path].pages |->
                              [ page |-> i, text |-> fs[file_path].pages[i] ] ] ]
    ELSE [ file_name |-> file_path, file_type |-> "PDF",
           error |-> "error reading PDF" ]

\* parse_docx(file_path): the record of the document, or the record with
\* 'error' when python-docx raises
parse_docx(fs, file_path) ==
    IF "format" \in DOMAIN fs[file_path] /\ fs[file_path].format = "docx"
    THEN [ file_name       |-> file_path,
           file_type       |-> "DOCX",
           metadata        |-> Metadata,
           paragraph_count |-> Len(fs[file_path].paragraphs),
           table_count     |-> Len(fs[file_path].tables),
           paragraphs      |-> [ i \in DOMAIN fs[file_path].paragraphs |->
                                   [ paragraph_number |-> i,
                                     text |-> fs[file_path].paragraphs[i] ] ],
           tables          |-> fs[file_path].tables ]
    ELSE [ file_name |-> file_path, file_type |-> "DOCX",
           error |-> "error reading DOCX" ]

\* the dispatch knowing the PDF parser only
DispatchPdfOnly(file_name) ==
    IF EndsWith(file_name, ".pdf") THEN "parse_pdf" ELSE "unsupported"

\* the if/elif/else on the extension: the parser an existing file goes to
Dispatch(file_name) ==
    IF EndsWith(file_name, ".pdf") THEN "parse_pdf"
    ELSE IF EndsWith(file_name, ".docx") THEN "parse_docx"
    ELSE "unsupported"

\* the directories parse_all_files may find: any of the listed files, with
\* any content
ParseDirectories ==
    UNION { [S -> FileContents] : S \in SUBSET Range(supported_files) }

InitParse ==
    /\ config = ParserConfig(0, TRUE, 1)
    /\ site = [u \in {} |-> <<>>]
    /\ pool = [ hrefs |-> {}, titles |-> {<<"Title">>}, bodies |-> Bodies ]
    /\ pc = "parse"
    /\ stack = <<>>
    /\ visited_urls = {}
    /\ articles = <<>>
    /\ failed_urls = <<>>
    /\ stats = InitStats
    /\ cleaner = None
    /\ input = None
    /\ result = None
    /\ files \in ParseDirectories
    /\ log = <<>>

\* parse_all_files() is called: results = [] and the loop starts
ParseAllFilesCall ==
    /\ pc = "parse"
    /\ stack' = << [ next |-> 1, results |-> <<>> ] >>
    /\ pc' = "parsing"
    /\ UNCHANGED <<config, site, pool, visited_urls, articles, failed_urls,
                   stats, cleaner, input, result, files, log>>

\* one iteration of `for file_name in self.supported_files`
ParseFile ==
    /\ pc = "parsing"
    /\ Top.next <= Len(supported_files)
    /\ LET file_name == supported_files[Top.next]
           parser    == Dispatch(file_name)
           outcome   == IF file_name \notin DOMAIN files
                        THEN [ file_name |-> file_name, error |-> "file not found" ]
                        ELSE IF parser = "parse_pdf" THEN parse_pdf(files, file_name)
                        ELSE IF parser = "parse_docx" THEN parse_docx(files, file_name)
                        ELSE [ file_name |-> file_name,
                               error |-> "unsupported file format" ]
           called    == IF file_name \in DOMAIN files /\ parser # "unsupported"
                        THEN << Event(parser, file_name, Top.next, {}) >>
                        ELSE <<>>
       IN  /\ stack' = << [ next    |-> Top.next + 1,
                            results |-> Append(Top.results, outcome) ] >>
           /\ log' = log \o called
    /\ UNCHANGED <<config, site, pool, pc, visited_urls, articles, failed_urls,
                   stats, cleaner, input, result, files>>

\* `return results` after the last file
ParseAllFilesReturn ==
    /\ pc = "parsing"
    /\ Top.next > Len(supported_files)
    /\ result' = Some(Top.results)
    /\ stack' = <<>>
    /\ pc' = "parsed"
    /\ UNCHANGED <<config, site, pool, visited_urls, articles, failed_urls,
                   stats, cleaner, input, files, log>>

NextParse ==
    \/ ParseAllFilesCall
    \/ ParseFile
    \/ ParseAllFilesReturn

SpecParse == InitParse /\ [][NextParse]_vars

\* the results collected so far, or returned
ResultsSoFar == IF pc = "parsed" THEN result[1] ELSE Top.results

\* the parser calls made on a file
ParseCalls(file_name) == { k \in DOMAIN log : log[k].url = file_name }

\* the position of the one .docx file in the hardcoded list
DocxPosition == 6

\* C30: parse_all_files collects one result per file of the list gone
\* through, in list order, and returns one per file of the whole list; the
\* result of a missing file carries 'error' and no parser was called on it;
\* an existing .pdf file went to parse_pdf and the .docx file to parse_docx,
\* once; the result carries 'error' exactly when the file is missing or its
\* parser failed on it; whatever happened to the files before.
OneResultPerListedFile ==
    pc \in {"parsing", "parsed"} =>
        LET results == ResultsSoFar
        IN  /\ pc = "parsed" => Len(results) = Len(supported_files)
            /\ pc = "parsing" => Len(results) = Top.next - 1
            /\ \A i \in DOMAIN results :
                  LET file_name == supported_files[i]
                      docx      == i = DocxPosition
                  IN  /\ results[i].file_name = file_name
                      /\ IF file_name \notin DOMAIN files
                         THEN /\ "error" \in DOMAIN results[i]
                              /\ ParseCalls(file_name) = {}
                         ELSE /\ Cardinality(ParseCalls(file_name)) = 1
                              /\ \A k \in ParseCalls(file_name) :
                                    log[k].op = IF docx THEN "parse_docx"
                                                ELSE "parse_pdf"
                              /\ results[i].file_type = IF docx THEN "DOCX" ELSE "PDF"
                              /\ "error" \in DOMAIN results[i]
                                    <=> files[file_name]
                                           # (IF docx THEN DocxDocument ELSE PdfDocument)
            /\ \A k, l \in DOMAIN log : k < l => log[k].n < log[l].n

\* C30 witness: the call returned with the first file missing, the second
\* unreadable, and the .docx file and the last file parsed
ParsedPastMissingAndBroken ==
    /\ pc = "parsed"
    /\ supported_files[1] \notin DOMAIN files
    /\ supported_files[2] \in DOMAIN files
    /\ files[supported_files[2]] = Garbage
    /\ "error" \in DOMAIN result[1][1]
    /\ "error" \in DOMAIN result[1][2]
    /\ "error" \notin DOMAIN result[1][6]
    /\ result[1][6].file_type = "DOCX"
    /\ "error" \notin DOMAIN result[1][7]

====
